---- MODULE Spec2Model ----
(***************************************************************************)
(* Model of the unary dispatch engine of core/base/Router.module.ts:       *)
(* the method registry, the before/after middleware lists, and the async   *)
(* entry point returned by RouterModule.toUnaryHandler.                    *)
(*                                                                         *)
(* One router and one inbound call are modelled.  Middleware and           *)
(* controllers are user code: each is represented by its behaviour         *)
(* ("pass" awaits next() once, "skip" returns without next(), "throw"      *)
(* throws before next(), "twice" awaits next() and then awaits it again;   *)
(* a controller "returns" a value or "throws").  Every middleware awaits   *)
(* the continuation it invokes, so a call is one stack of runner frames.   *)
(* The values thrown and returned are chosen when the stage runs.          *)
(* That is the specification Spec.  Others widen it: SpecLive adds stages  *)
(* that never settle and states which steps the event loop takes;          *)
(* SpecDetached adds middleware that calls next() without awaiting it, so  *)
(* that a call has several flows; SpecAssembly is the wiring of a router   *)
(* for a service with two methods; SpecEntryPoints runs calls, one after   *)
(* the other, through the mappings asServiceImpl() returned; SpecState adds*)
(* middleware that writes ctx.state; SpecConcurrent interleaves several    *)
(* calls of one router; SpecServingUse lets use() run while a call is in   *)
(* flight; SpecLogging has handlers that log through core/logger.  SpecOrm *)
(* is OrmDatabaseModule.connect() with its retry policy, SpecOrmLifecycle  *)
(* adds disconnect(), and SpecClassify applies toOrmConnectError to error  *)
(* objects of every shape.  SpecApp is core/app/App.ts with one ORM        *)
(* module: addService, initRouters, start() and stop(); SpecAppLive is its *)
(* start() and stop() with the steps the event loop is sure to take.       *)
(***************************************************************************)
EXTENDS Integers, Sequences, FiniteSets, TLC

VARIABLES
    beforeMiddlewares,  \* RouterModule.beforeMiddlewares
    afterMiddlewares,   \* RouterModule.afterMiddlewares
    routes,             \* RouterModule.routes (Map, in insertion order)
    entry,              \* outcome of the last toUnaryHandler(name)
    cancelled,          \* call.cancelled of the inbound call
    pc,                 \* position of the async entry point
    phase,              \* which list the running runChain was given
    idx,                \* runChain's cursor
    stack,              \* runner frames of the running chain, innermost last
    ctxState,           \* ctx.state
    result,             \* const result (line 160)
    thrown,             \* the value caught at line 171
    log,                \* history: what ran, in order
    detached,           \* the flows of the call that wait while another runs
    impls,              \* the mappings returned by asServiceImpl(), oldest first
    ctx,                \* ctx without its state: call, metadata, service, method
    waiting,            \* the other calls in flight, each suspended at an await
    orm,                \* an OrmDatabaseModule: status, and its connect() in progress
    app                 \* the App: its fields, its server, its start()/stop() in progress

vars == <<beforeMiddlewares, afterMiddlewares, routes, entry, cancelled, pc,
          phase, idx, stack, ctxState, result, thrown, log, detached, impls,
          ctx, waiting, orm, app>>

----------------------------------------------------------------------------
(* Bounds *)

\* registered middleware, both phases together
MaxMiddlewares == 4

----------------------------------------------------------------------------
(* JavaScript values *)

Undefined == [t |-> "undefined"]
Null == [t |-> "null"]
Num(n) == [t |-> "number", n |-> n, frac |-> FALSE]
\* the non-integer number n + 1/2
Frac(n) == [t |-> "number", n |-> n, frac |-> TRUE]
Str(s) == [t |-> "string", s |-> s]
Err(code, message, details) ==
    [t |-> "object", code |-> code, message |-> message, details |-> details]

\* grpc-js status codes used by the router
CANCELLED == 1
UNKNOWN == 2

\* e?.f : undefined for a nullish or primitive e, the property otherwise
Prop(e, f) == IF e.t = "object" THEN e[f] ELSE Undefined

\* a ?? b
Coalesce(a, b) == IF a.t \in {"undefined", "null"} THEN b ELSE a

\* Number.isInteger(v)
IsInteger(v) == v.t = "number" /\ ~v.frac

\* values a stage may throw
Failures ==
    { Err(Undefined, Str("boom"), Undefined),
      Err(Num(5), Str("denied"), Str("why")),
      Err(Num(0), Str(""), Undefined),
      Err(Num(-1), Str("boom"), Undefined),
      Err(Frac(1), Str("boom"), Undefined),
      Err(Str("5"), Undefined, Str("why")),
      Undefined }

\* values a controller may return
Results == { [t |-> "response", status |-> "SERVING"],
             [t |-> "response", status |-> "seen"] }

MiddlewareKinds == {"pass", "skip", "throw", "twice"}
ControllerKinds == {"returns", "throws"}
Methods == {"check"}
StateKeys == {"seen", "__response", "__result"}

----------------------------------------------------------------------------
(* The code's pure pieces *)

\* lines 172-175
StatusCodeStrict(e) ==
    LET c == Prop(e, "code")
    IN  IF IsInteger(c) /\ c.n > 0 THEN c ELSE Num(UNKNOWN)
StatusCode(e) ==
    LET c == Prop(e, "code")
    IN  IF IsInteger(c) /\ c.n >= 0 THEN c ELSE Num(UNKNOWN)

\* lines 176-179
ToServiceErrorNoDetails(e) ==
    Err(StatusCode(e), Coalesce(Prop(e, "message"), Str("Internal error")),
        Undefined)
ToServiceError(e) ==
    Err(StatusCode(e), Coalesce(Prop(e, "message"), Str("Internal error")),
        Prop(e, "details"))

\* lines 147-149
CancelledError == Err(Num(CANCELLED), Str("Cancelled"), Undefined)

\* line 137
DuplicateNextError == Err(Undefined, Str("next() called multiple times"), Undefined)
RunnerGuardOffByOne(i, cursor) == i < cursor
RunnerGuard(i, cursor) == i <= cursor

\* line 140: the continuation handed to chain[i]
NextIndexSkipping(i) == i + 2
NextIndex(i) == i + 1

\* line 162
ResultKeyOfSpec == "__result"
ResultKey == "__response"

\* routes.get(name)
RouteIndex(name) ==
    IF \E k \in 1..Len(routes) : routes[k].name = name
    THEN CHOOSE k \in 1..Len(routes) : routes[k].name = name
    ELSE 0

\* the list a runChain closure was given
Chain(p) == IF p = "after" THEN afterMiddlewares ELSE beforeMiddlewares

----------------------------------------------------------------------------
(* History *)

Event(ev, p, i, val) == [ev |-> ev, phase |-> p, i |-> i, val |-> val]
Logged(e) == log' = Append(log, e)
Top == stack[Len(stack)]
Pop == SubSeq(stack, 1, Len(stack) - 1)
Frame(i, at) == [i |-> i, at |-> at]

----------------------------------------------------------------------------
(* Construction and wiring *)

Init ==
    /\ beforeMiddlewares = <<>>
    /\ afterMiddlewares = <<>>
    /\ routes = <<>>
    /\ entry = [t |-> "none"]
    /\ cancelled = FALSE
    /\ pc = "none"
    /\ phase = "none"
    /\ idx = -1
    /\ stack = <<>>
    /\ ctxState = [k \in StateKeys |-> Undefined]
    /\ result = Undefined
    /\ thrown = Undefined
    /\ log = <<>>
    /\ detached = <<>>
    /\ impls = <<>>
    /\ ctx = [t |-> "none"]
    /\ waiting = <<>>
    /\ orm = [status |-> "IDLE", pc |-> "idle", calls |-> 0,
              retry |-> [maxAttempts |-> 0, baseDelayMs |-> [n |-> 0, d |-> 1],
                         factor |-> [n |-> 1, d |-> 1],
                         maxDelayMs |-> [n |-> 0, d |-> 1]],
              attempt |-> 0, delay |-> [n |-> 0, d |-> 1],
              invoked |-> 0, failed |-> 0, ok |-> FALSE, waits |-> <<>>,
              last |-> [t |-> "none"],
              dpc |-> "idle", dcalls |-> 0, dinvoked |-> 0, dthrew |-> FALSE,
              during |-> FALSE]
    /\ app = [services |-> <<>>, mounted |-> <<>>, orms |-> 0,
              initedRouters |-> FALSE, initedDatabases |-> FALSE,
              started |-> FALSE, server |-> "new", pc |-> "idle",
              startCalls |-> 0, stopCalls |-> 0, initCalls |-> 0,
              starts |-> 0, binds |-> 0, mark |-> 0,
              done |-> FALSE, finishes |-> 0, forced |-> FALSE,
              tryShutdown |-> "none", timer |-> "none",
              completedFirst |-> FALSE]

\* the phase argument of use(): 'before', 'after', or left out (line 81)
UsePhases == {"before", "after", "omitted"}

\* a use() that puts the middleware in front of its list
UsePrepending(mw, ph) ==
    /\ pc = "none"
    /\ Len(beforeMiddlewares) + Len(afterMiddlewares) < MaxMiddlewares
    /\ IF ph = "after"
       THEN /\ afterMiddlewares' = <<mw>> \o afterMiddlewares
            /\ UNCHANGED beforeMiddlewares
       ELSE /\ beforeMiddlewares' = <<mw>> \o beforeMiddlewares
            /\ UNCHANGED afterMiddlewares
    /\ UNCHANGED <<routes, entry, cancelled, pc, phase, idx, stack, ctxState,
                   result, thrown, log>>
    /\ UNCHANGED <<detached, impls, ctx, waiting, orm, app>>

\* use(mw, phase), lines 78-86; wiring ends when the call is dispatched
Use(mw, ph) ==
    /\ pc = "none"
    /\ Len(beforeMiddlewares) + Len(afterMiddlewares) < MaxMiddlewares
    /\ IF ph = "after"
       THEN /\ afterMiddlewares' = Append(afterMiddlewares, mw)
            /\ UNCHANGED beforeMiddlewares
       ELSE /\ beforeMiddlewares' = Append(beforeMiddlewares, mw)
            /\ UNCHANGED afterMiddlewares
    /\ UNCHANGED <<routes, entry, cancelled, pc, phase, idx, stack, ctxState,
                   result, thrown, log>>
    /\ UNCHANGED <<detached, impls, ctx, waiting, orm, app>>

\* a handle() that pushes onto a list of pairs
HandleAppendingDuplicate(name, controller) ==
    /\ pc = "none"
    /\ routes' = Append(routes, [name |-> name, controller |-> controller])
    /\ Len(routes) < 2
    /\ UNCHANGED <<beforeMiddlewares, afterMiddlewares, entry, cancelled, pc,
                   phase, idx, stack, ctxState, result, thrown, log>>
    /\ UNCHANGED <<detached, impls, ctx, waiting, orm, app>>

\* a handle() that deletes the name before it sets it again
HandleMovingToEnd(name, controller) ==
    /\ pc = "none"
    /\ routes' = Append(SelectSeq(routes, LAMBDA r : r.name # name),
                        [name |-> name, controller |-> controller])
    /\ UNCHANGED <<beforeMiddlewares, afterMiddlewares, entry, cancelled, pc,
                   phase, idx, stack, ctxState, result, thrown, log>>
    /\ UNCHANGED <<detached, impls, ctx, waiting, orm, app>>

\* handle(methodName, controller), lines 97-103: Map.set
Handle(name, controller) ==
    /\ pc = "none"
    /\ routes' = IF RouteIndex(name) = 0
                 THEN Append(routes, [name |-> name, controller |-> controller])
                 ELSE [routes EXCEPT ![RouteIndex(name)].controller = controller]
    /\ UNCHANGED <<beforeMiddlewares, afterMiddlewares, entry, cancelled, pc,
                   phase, idx, stack, ctxState, result, thrown, log>>
    /\ UNCHANGED <<detached, impls, ctx, waiting, orm, app>>

\* what toUnaryHandler(name) gives, lines 115-125: it throws when
\* routes.get(name) is falsy and returns the closure over the controller
EntryPoint(name) ==
    IF RouteIndex(name) = 0
    THEN [t |-> "threw", method |-> name]
    ELSE [t |-> "handler", method |-> name,
          controller |-> routes[RouteIndex(name)].controller]

\* a toUnaryHandler that leaves the lookup failure to call time
ToUnaryHandlerDeferred(name) ==
    /\ pc = "none"
    /\ entry' = [t |-> "handler", method |-> name,
                 controller |-> IF RouteIndex(name) = 0
                                THEN "missing"
                                ELSE routes[RouteIndex(name)].controller]
    /\ UNCHANGED <<beforeMiddlewares, afterMiddlewares, routes, cancelled, pc,
                   phase, idx, stack, ctxState, result, thrown, log>>
    /\ UNCHANGED <<detached, impls, ctx, waiting, orm, app>>

\* toUnaryHandler(methodName), lines 111-125: throws, or returns the closure
ToUnaryHandler(name) ==
    /\ pc = "none"
    /\ entry' = EntryPoint(name)
    /\ UNCHANGED <<beforeMiddlewares, afterMiddlewares, routes, cancelled, pc,
                   phase, idx, stack, ctxState, result, thrown, log>>
    /\ UNCHANGED <<detached, impls, ctx, waiting, orm, app>>

----------------------------------------------------------------------------
(* The entry point, lines 125-182 *)

CallbackEvent(err, value) ==
    Event("callback", "none", -1, [err |-> err, value |-> value])

\* the Metadata of a call that has some, and new Metadata() (line 128)
RequestMetadata == [t |-> "metadata", of |-> "request"]
NewMetadata == [t |-> "metadata", of |-> "new"]

\* this.prefix of the router (HealthRouter: 'health.HealthService')
ServicePrefix == "health.HealthService"

\* a context whose construction fills in the call's missing metadata
BuildContextFillingCall(call, methodName) ==
    [call |-> [metadata |-> Coalesce(call.metadata, NewMetadata)],
     metadata |-> Coalesce(call.metadata, NewMetadata),
     service |-> ServicePrefix,
     method |-> methodName]

\* lines 126-132, state apart
BuildContext(call, methodName) ==
    [call |-> call,
     metadata |-> Coalesce(call.metadata, NewMetadata),
     service |-> ServicePrefix,
     method |-> methodName]

\* what the history keeps of the dispatch
\* an entry point whose contexts share one state object
InvokeCallSharingState(c, md) ==
    /\ pc = "none"
    /\ entry.t = "handler"
    /\ cancelled' = c
    /\ ctx' = BuildContext([metadata |-> md], entry.method)
    /\ ctxState' = ctxState
    /\ log' = <<Event("invoke", "none", -1,
                      [cancelled |-> c, before |-> beforeMiddlewares,
                       after |-> afterMiddlewares])>>
    /\ pc' = "before"
    /\ UNCHANGED <<beforeMiddlewares, afterMiddlewares, routes, entry, phase,
                   idx, stack, result, thrown, detached, impls, waiting, orm, app>>

InvokeEvent(c) ==
    Event("invoke", "none", -1,
          [cancelled |-> c, before |-> beforeMiddlewares,
           after |-> afterMiddlewares])

\* lines 125-152 with the return of line 151 left out
InvokeFallingThrough(c) ==
    /\ pc = "none"
    /\ entry.t = "handler"
    /\ cancelled' = c
    /\ ctx' = BuildContext([metadata |-> RequestMetadata], entry.method)
    /\ ctxState' = [k \in StateKeys |-> Undefined]
    /\ log' = IF c
              THEN <<InvokeEvent(c), CallbackEvent(CancelledError, Null)>>
              ELSE <<InvokeEvent(c)>>
    /\ pc' = "before"
    /\ UNCHANGED <<beforeMiddlewares, afterMiddlewares, routes, entry, phase,
                   idx, stack, result, thrown>>
    /\ UNCHANGED <<detached, impls, waiting, orm, app>>

\* the transport invokes the entry point with a call whose cancelled flag
\* is c and whose metadata is md: the context is built (126-132) and the
\* flag is read (146-152)
InvokeCall(c, md) ==
    /\ pc = "none"
    /\ entry.t = "handler"
    /\ cancelled' = c
    /\ ctx' = BuildContext([metadata |-> md], entry.method)
    /\ ctxState' = [k \in StateKeys |-> Undefined]
    /\ log' = IF c
              THEN <<InvokeEvent(c), CallbackEvent(CancelledError, Null)>>
              ELSE <<InvokeEvent(c)>>
    /\ pc' = IF c THEN "done" ELSE "before"
    /\ UNCHANGED <<beforeMiddlewares, afterMiddlewares, routes, entry, phase,
                   idx, stack, result, thrown>>
    /\ UNCHANGED <<detached, impls, waiting, orm, app>>

\* a call that carries metadata
Invoke(c) == InvokeCall(c, RequestMetadata)

\* the transport marks the call cancelled while a stage of it is suspended
Cancel ==
    /\ pc \in {"beforeRun", "afterRun", "awaitController"}
    /\ ~cancelled
    /\ cancelled' = TRUE
    /\ UNCHANGED <<beforeMiddlewares, afterMiddlewares, routes, entry, pc,
                   phase, idx, stack, ctxState, result, thrown, log>>
    /\ UNCHANGED <<detached, impls, ctx, waiting, orm, app>>

\* an after-chain failure that does not fail the call
RaiseIgnoredAfterHandler(e) ==
    /\ thrown' = e
    /\ stack' = <<>>
    /\ pc' = IF pc = "afterRun" THEN "respond" ELSE "catch"

\* a rejection reaches the catch of line 171 through every pending await
Raise(e) ==
    /\ thrown' = e
    /\ stack' = <<>>
    /\ pc' = "catch"

\* a runChain whose cursor outlives the call
StartChainSharedCursor(p) ==
    /\ phase' = p
    /\ idx' = idx
    /\ stack' = <<Frame(0, "enter")>>

\* runChain(chain), lines 134-143, up to the call runner(0)
StartChain(p) ==
    /\ phase' = p
    /\ idx' = -1
    /\ stack' = <<Frame(0, "enter")>>

\* lines 154-158
BeforeChain ==
    /\ pc = "before"
    /\ IF Len(beforeMiddlewares) # 0
       THEN StartChain("before") /\ pc' = "beforeRun"
       ELSE pc' = "controller" /\ UNCHANGED <<phase, idx, stack>>
    /\ UNCHANGED <<beforeMiddlewares, afterMiddlewares, routes, entry,
                   cancelled, ctxState, result, thrown, log>>
    /\ UNCHANGED <<detached, impls, ctx, waiting, orm, app>>

\* a runner whose innermost continuation of the before-chain is the handler
RunnerWrappingHandler ==
    /\ pc \in {"beforeRun", "afterRun"}
    /\ stack # <<>>
    /\ Top.at = "enter"
    /\ IF RunnerGuard(Top.i, idx)
       THEN /\ Raise(DuplicateNextError)
            /\ Logged(Event("throw", phase, Top.i, DuplicateNextError))
            /\ UNCHANGED idx
       ELSE /\ idx' = Top.i
            /\ IF Top.i < Len(Chain(phase))
               THEN /\ stack' = [stack EXCEPT ![Len(stack)].at = "fn"]
                    /\ Logged(Event("start", phase, Top.i,
                                        [mw |-> Chain(phase)[Top.i + 1]]))
                    /\ UNCHANGED pc
               ELSE /\ stack' = Pop
                    /\ pc' = IF phase = "before" THEN "controller" ELSE pc
                    /\ UNCHANGED log
            /\ UNCHANGED thrown
    /\ UNCHANGED <<beforeMiddlewares, afterMiddlewares, routes, entry,
                   cancelled, phase, ctxState, result>>
    /\ UNCHANGED <<detached, impls, ctx, waiting, orm, app>>

\* runner(i), lines 136-141, up to the call of chain[i]
Runner ==
    /\ pc \in {"beforeRun", "afterRun"}
    /\ stack # <<>>
    /\ Top.at = "enter"
    /\ IF RunnerGuard(Top.i, idx)
       THEN /\ Raise(DuplicateNextError)
            /\ Logged(Event("throw", phase, Top.i, DuplicateNextError))
            /\ UNCHANGED idx
       ELSE /\ idx' = Top.i
            /\ IF Top.i < Len(Chain(phase))
               THEN /\ stack' = [stack EXCEPT ![Len(stack)].at = "fn"]
                    /\ Logged(Event("start", phase, Top.i,
                                        [mw |-> Chain(phase)[Top.i + 1]]))
               ELSE /\ stack' = Pop
                    /\ UNCHANGED log
            /\ UNCHANGED <<pc, thrown>>
    /\ UNCHANGED <<beforeMiddlewares, afterMiddlewares, routes, entry,
                   cancelled, phase, ctxState, result>>
    /\ UNCHANGED <<detached, impls, ctx, waiting, orm, app>>

\* the body of chain[i] up to its first next(), return or throw
Middleware ==
    /\ pc \in {"beforeRun", "afterRun"}
    /\ stack # <<>>
    /\ Top.at = "fn"
    /\ LET kind == Chain(phase)[Top.i + 1]
       IN  \/ /\ kind \in {"pass", "twice"}
              /\ stack' = Append([stack EXCEPT ![Len(stack)].at = "next1"],
                                 Frame(NextIndex(Top.i), "enter"))
              /\ Logged(Event("next", phase, Top.i, Undefined))
              /\ UNCHANGED <<pc, thrown>>
           \/ /\ kind = "skip"
              /\ stack' = Pop
              /\ UNCHANGED <<pc, thrown, log>>
           \/ /\ kind = "throw"
              /\ \E e \in Failures :
                    /\ Raise(e)
                    /\ Logged(Event("throw", phase, Top.i, e))
    /\ UNCHANGED <<beforeMiddlewares, afterMiddlewares, routes, entry,
                   cancelled, phase, idx, ctxState, result>>
    /\ UNCHANGED <<detached, impls, ctx, waiting, orm, app>>

\* the body of chain[i] after an awaited next() has returned
Resume ==
    /\ pc \in {"beforeRun", "afterRun"}
    /\ stack # <<>>
    /\ Top.at \in {"next1", "next2"}
    /\ IF Chain(phase)[Top.i + 1] = "twice" /\ Top.at = "next1"
       THEN /\ stack' = Append([stack EXCEPT ![Len(stack)].at = "next2"],
                               Frame(NextIndex(Top.i), "enter"))
            /\ Logged(Event("next", phase, Top.i, Undefined))
       ELSE /\ stack' = Pop
            /\ UNCHANGED log
    /\ UNCHANGED <<beforeMiddlewares, afterMiddlewares, routes, entry,
                   cancelled, pc, phase, idx, ctxState, result, thrown>>
    /\ UNCHANGED <<detached, impls, ctx, waiting, orm, app>>

\* await runChain(...) resumes, lines 155 and 165
ChainResolved ==
    /\ pc \in {"beforeRun", "afterRun"}
    /\ stack = <<>>
    /\ pc' = IF pc = "beforeRun" THEN "controller" ELSE "respond"
    /\ UNCHANGED <<beforeMiddlewares, afterMiddlewares, routes, entry,
                   cancelled, phase, idx, stack, ctxState, result, thrown, log>>
    /\ UNCHANGED <<detached, impls, ctx, waiting, orm, app>>

\* a controller call that looks at the transport's flag again
ControllerCallRecheckingCancelled ==
    /\ pc = "controller"
    /\ IF cancelled
       THEN /\ pc' = "done"
            /\ Logged(CallbackEvent(CancelledError, Null))
       ELSE /\ pc' = "awaitController"
            /\ Logged(Event("handler", "none", -1,
                            [controller |-> entry.controller]))
    /\ UNCHANGED <<beforeMiddlewares, afterMiddlewares, routes, entry,
                   cancelled, phase, idx, stack, ctxState, result, thrown>>
    /\ UNCHANGED <<detached, impls, ctx, waiting, orm, app>>

\* line 160: the controller is called
ControllerCall ==
    /\ pc = "controller"
    /\ pc' = "awaitController"
    /\ Logged(Event("handler", "none", -1,
                    [controller |-> entry.controller]))
    /\ UNCHANGED <<beforeMiddlewares, afterMiddlewares, routes, entry,
                   cancelled, phase, idx, stack, ctxState, result, thrown>>
    /\ UNCHANGED <<detached, impls, ctx, waiting, orm, app>>

\* an entry point that looks the controller up when it is called
ControllerSettleLateBound ==
    /\ pc = "awaitController"
    /\ \/ /\ routes[RouteIndex(entry.method)].controller = "returns"
          /\ \E r \in Results :
                /\ result' = r
                /\ Logged(Event("return", "none", -1, r))
          /\ pc' = "store"
          /\ UNCHANGED <<stack, thrown>>
       \/ /\ routes[RouteIndex(entry.method)].controller = "throws"
          /\ \E e \in Failures :
                /\ Raise(e)
                /\ Logged(Event("throw", "handler", -1, e))
          /\ UNCHANGED result
    /\ UNCHANGED <<beforeMiddlewares, afterMiddlewares, routes, entry,
                   cancelled, phase, idx, ctxState>>
    /\ UNCHANGED <<detached, impls, ctx, waiting, orm, app>>

\* line 160: the controller's promise settles
ControllerSettle ==
    /\ pc = "awaitController"
    /\ \/ /\ entry.controller = "returns"
          /\ \E r \in Results :
                /\ result' = r
                /\ Logged(Event("return", "none", -1, r))
          /\ pc' = "store"
          /\ UNCHANGED <<stack, thrown>>
       \/ /\ entry.controller = "throws"
          /\ \E e \in Failures :
                /\ Raise(e)
                /\ Logged(Event("throw", "handler", -1, e))
          /\ UNCHANGED result
    /\ UNCHANGED <<beforeMiddlewares, afterMiddlewares, routes, entry,
                   cancelled, phase, idx, ctxState>>
    /\ UNCHANGED <<detached, impls, ctx, waiting, orm, app>>

\* line 162
Store ==
    /\ pc = "store"
    /\ ctxState' = [ctxState EXCEPT ![ResultKey] = result]
    /\ pc' = "after"
    /\ UNCHANGED <<beforeMiddlewares, afterMiddlewares, routes, entry,
                   cancelled, phase, idx, stack, result, thrown, log>>
    /\ UNCHANGED <<detached, impls, ctx, waiting, orm, app>>

\* lines 164-168
AfterChain ==
    /\ pc = "after"
    /\ IF Len(afterMiddlewares) # 0
       THEN StartChain("after") /\ pc' = "afterRun"
       ELSE pc' = "respond" /\ UNCHANGED <<phase, idx, stack>>
    /\ UNCHANGED <<beforeMiddlewares, afterMiddlewares, routes, entry,
                   cancelled, ctxState, result, thrown, log>>
    /\ UNCHANGED <<detached, impls, ctx, waiting, orm, app>>

\* line 170
ResponsePayloadFromState == ctxState["__result"]
ResponsePayloadFromReservedEntry == ctxState[ResultKey]
ResponsePayload == result

Respond ==
    /\ pc = "respond"
    /\ Logged(CallbackEvent(Null, ResponsePayload))
    /\ pc' = "done"
    /\ UNCHANGED <<beforeMiddlewares, afterMiddlewares, routes, entry,
                   cancelled, phase, idx, stack, ctxState, result, thrown>>
    /\ UNCHANGED <<detached, impls, ctx, waiting, orm, app>>

\* a catch block that only records the failure
CatchSilently ==
    /\ pc = "catch"
    /\ pc' = "done"
    /\ UNCHANGED <<beforeMiddlewares, afterMiddlewares, routes, entry,
                   cancelled, phase, idx, stack, ctxState, result, thrown, log>>
    /\ UNCHANGED <<detached, impls, ctx, waiting, orm, app>>

\* lines 171-181
Catch ==
    /\ pc = "catch"
    /\ Logged(CallbackEvent(ToServiceError(thrown), Null))
    /\ pc' = "done"
    /\ UNCHANGED <<beforeMiddlewares, afterMiddlewares, routes, entry,
                   cancelled, phase, idx, stack, ctxState, result, thrown>>
    /\ UNCHANGED <<detached, impls, ctx, waiting, orm, app>>

Next ==
    \/ \E mw \in MiddlewareKinds, ph \in UsePhases : Use(mw, ph)
    \/ \E name \in Methods, c \in ControllerKinds : Handle(name, c)
    \/ \E name \in Methods : ToUnaryHandler(name)
    \/ \E c \in BOOLEAN : Invoke(c)
    \/ Cancel
    \/ BeforeChain
    \/ Runner
    \/ Middleware
    \/ Resume
    \/ ChainResolved
    \/ ControllerCall
    \/ ControllerSettle
    \/ Store
    \/ AfterChain
    \/ Respond
    \/ Catch

Spec == Init /\ [][Next]_vars

----------------------------------------------------------------------------
(* Calls whose stages may never settle *)

\* registered middleware in the specification SpecLive
MaxLiveMiddlewares == 2

\* a middleware or controller whose promise stays pending for ever
HangingMiddleware == "hang"
HangingController == "hangs"

\* the steps the event loop takes by itself once their promise is settled
EngineStep ==
    \/ BeforeChain
    \/ Runner
    \/ Middleware
    \/ Resume
    \/ ChainResolved
    \/ ControllerCall
    \/ ControllerSettle
    \/ Store
    \/ AfterChain
    \/ Respond
    \/ Catch

NextLive ==
    \/ \E mw \in MiddlewareKinds \cup {HangingMiddleware},
          ph \in {"before", "after"} :
            /\ Len(beforeMiddlewares) + Len(afterMiddlewares) < MaxLiveMiddlewares
            /\ Use(mw, ph)
    \/ \E name \in Methods, c \in ControllerKinds \cup {HangingController} :
            Handle(name, c)
    \/ \E name \in Methods : ToUnaryHandler(name)
    \/ \E c \in BOOLEAN : Invoke(c)
    \/ Cancel
    \/ EngineStep

\* every continuation that is ready to run is run
SpecLive == Init /\ [][NextLive]_vars /\ WF_vars(EngineStep)

----------------------------------------------------------------------------
(* Service assembly *)

\* mappings built in the specifications SpecAssembly and SpecEntryPoints
MaxAssemblies == 2

\* the methods of the service definition the mapping is mounted with
\* (App.addRouter(name, definition, impl)); HealthService declares check
ServiceMethods == {"check", "watch"}
HealthMethods == {"check"}

\* listMethods(), lines 106-108
ListMethods == [k \in 1..Len(routes) |-> routes[k].name]

\* RouterModule.asServiceImpl(), lines 189-195: one entry point per key of
\* routes, in the order of the keys
AsServiceImpl ==
    /\ pc = "none"
    /\ Len(impls) < MaxAssemblies
    /\ impls' = Append(impls,
                       [t |-> "impl", by |-> "RouterModule", registry |-> routes,
                        entries |-> [k \in 1..Len(ListMethods) |->
                                        EntryPoint(ListMethods[k])]])
    /\ UNCHANGED <<beforeMiddlewares, afterMiddlewares, routes, entry,
                   cancelled, pc, phase, idx, stack, ctxState, result, thrown,
                   log, detached, ctx, waiting, orm, app>>

\* HealthRouter.asServiceImpl(), Health.router.ts lines 45-51; the
\* constructor (lines 36-39) has registered check
HealthAsServiceImpl ==
    /\ pc = "none"
    /\ Len(impls) < MaxAssemblies
    /\ RouteIndex("check") # 0
    /\ impls' = Append(impls,
                       [t |-> "impl", by |-> "HealthRouter", registry |-> routes,
                        entries |-> <<EntryPoint("check")>>])
    /\ UNCHANGED <<beforeMiddlewares, afterMiddlewares, routes, entry,
                   cancelled, pc, phase, idx, stack, ctxState, result, thrown,
                   log, detached, ctx, waiting, orm, app>>

NextAssembly ==
    \/ \E name \in ServiceMethods, c \in ControllerKinds : Handle(name, c)
    \/ \E name \in ServiceMethods : ToUnaryHandler(name)
    \/ AsServiceImpl
    \/ HealthAsServiceImpl

SpecAssembly == Init /\ [][NextAssembly]_vars

----------------------------------------------------------------------------
(* Calls through assembled mappings, one after the other *)

\* registered middleware in the specification SpecEntryPoints
MaxEntryMiddlewares == 1

\* the server dispatches to entry point j of mapping k (App.initRouters
\* mounts svc.impl, the transport looks the method up in it)
SelectEntry(k, j) ==
    /\ pc = "none"
    /\ k \in DOMAIN impls
    /\ j \in DOMAIN impls[k].entries
    /\ entry' = [t |-> "handler",
                 method |-> impls[k].entries[j].method,
                 controller |-> impls[k].entries[j].controller,
                 impl |-> k]
    /\ UNCHANGED <<beforeMiddlewares, afterMiddlewares, routes, cancelled, pc,
                   phase, idx, stack, ctxState, result, thrown, log, detached,
                   impls, ctx, waiting, orm, app>>

\* the entry point's promise has settled (after line 151, 170 or 180); the
\* server may dispatch the next call
Return ==
    /\ pc = "done"
    /\ pc' = "none"
    /\ UNCHANGED <<beforeMiddlewares, afterMiddlewares, routes, entry,
                   cancelled, phase, idx, stack, ctxState, result, thrown, log,
                   detached, impls, ctx, waiting, orm, app>>

\* the router is wired and the mappings are built before the server starts
\* to dispatch calls
NextEntryPoints ==
    \/ \E mw \in MiddlewareKinds, ph \in UsePhases :
            /\ log = <<>>
            /\ Len(beforeMiddlewares) + Len(afterMiddlewares) < MaxEntryMiddlewares
            /\ Use(mw, ph)
    \/ \E name \in Methods, c \in ControllerKinds :
            log = <<>> /\ Handle(name, c)
    \/ log = <<>> /\ AsServiceImpl
    \/ \E k \in 1..MaxAssemblies, j \in 1..Cardinality(Methods) : SelectEntry(k, j)
    \/ \E c \in BOOLEAN : Invoke(c)
    \/ Cancel
    \/ EngineStep
    \/ Return

SpecEntryPoints == Init /\ [][NextEntryPoints]_vars

----------------------------------------------------------------------------
(* Middleware that does not await its continuation *)

\* registered middleware in the specification SpecDetached
MaxDetachedMiddlewares == 2

\* a middleware that calls next() without awaiting it and returns
DetachingMiddleware == "detach"

\* One flow of control of the call: the entry point's own (main), or a
\* runner(i) whose promise nobody awaits.  The flow that is running has its
\* position in pc, phase, idx, stack and thrown; the others wait in detached.
ActiveIsMain == \A d \in DOMAIN detached : ~detached[d].main

ActiveFlow ==
    [main |-> ActiveIsMain, pc |-> pc, phase |-> phase, idx |-> idx,
     stack |-> stack, thrown |-> thrown]

Load(f) ==
    /\ pc' = f.pc
    /\ phase' = f.phase
    /\ idx' = f.idx
    /\ stack' = f.stack
    /\ thrown' = f.thrown

\* chain[i] calls next() and returns: runner(i + 1) runs up to its await of
\* chain[i + 1] (lines 137-140) inside the call, and goes on by itself
Detach ==
    /\ pc \in {"beforeRun", "afterRun"}
    /\ stack # <<>>
    /\ Top.at = "fn"
    /\ Chain(phase)[Top.i + 1] = DetachingMiddleware
    /\ LET j == NextIndex(Top.i)
           called == Append(log, Event("next", phase, Top.i, Undefined))
       IN  IF RunnerGuard(j, idx)
           THEN /\ log' = Append(called,
                                 Event("unhandled", phase, j, DuplicateNextError))
                /\ UNCHANGED <<idx, detached>>
           ELSE /\ idx' = j
                /\ IF j < Len(Chain(phase))
                   THEN /\ detached' =
                              Append(detached,
                                     [main |-> FALSE, pc |-> pc, phase |-> phase,
                                      idx |-> j, stack |-> <<Frame(j, "fn")>>,
                                      thrown |-> Undefined])
                        /\ log' = Append(called,
                                         Event("start", phase, j,
                                               [mw |-> Chain(phase)[j + 1]]))
                   ELSE /\ log' = called
                        /\ UNCHANGED detached
    /\ stack' = Pop
    /\ UNCHANGED <<beforeMiddlewares, afterMiddlewares, routes, entry,
                   cancelled, pc, phase, ctxState, result, thrown, impls, ctx, waiting, orm, app>>

\* the running flow is suspended at an await and the event loop resumes
\* another flow
Switch(d) ==
    /\ d \in DOMAIN detached
    /\ pc \in {"beforeRun", "afterRun", "awaitController", "done"}
    /\ IF stack = <<>> THEN TRUE ELSE Top.at # "enter"
    /\ detached' = [detached EXCEPT ![d] = ActiveFlow]
    /\ Load(detached[d])
    /\ UNCHANGED <<beforeMiddlewares, afterMiddlewares, routes, entry,
                   cancelled, ctxState, result, log, impls, ctx, waiting, orm, app>>

\* the promise of a runner(i) nobody awaits settles: a rejection is an
\* unhandled rejection, it reaches neither the catch of line 171 nor the
\* callback
DetachedSettled ==
    /\ ~ActiveIsMain
    /\ \/ pc \in {"beforeRun", "afterRun"} /\ stack = <<>>
       \/ pc = "catch"
    /\ log' = IF pc = "catch"
              THEN Append(log, Event("unhandled", phase, -1, thrown))
              ELSE log
    /\ LET m == CHOOSE d \in DOMAIN detached : detached[d].main
       IN  /\ Load(detached[m])
           /\ detached' = SubSeq(detached, 1, m - 1)
                              \o SubSeq(detached, m + 1, Len(detached))
    /\ UNCHANGED <<beforeMiddlewares, afterMiddlewares, routes, entry,
                   cancelled, ctxState, result, impls, ctx, waiting, orm, app>>

NextDetached ==
    \/ \E mw \in MiddlewareKinds \cup {DetachingMiddleware}, ph \in UsePhases :
            /\ Len(beforeMiddlewares) + Len(afterMiddlewares) < MaxDetachedMiddlewares
            /\ Use(mw, ph)
    \/ \E name \in Methods, c \in ControllerKinds : Handle(name, c)
    \/ \E name \in Methods : ToUnaryHandler(name)
    \/ \E c \in BOOLEAN : Invoke(c)
    \/ BeforeChain
    \/ Runner
    \/ Middleware
    \/ Resume
    \/ Detach
    \/ \E d \in 1..MaxDetachedMiddlewares : Switch(d)
    \/ DetachedSettled
    \/ ActiveIsMain /\ ChainResolved
    \/ ControllerCall
    \/ ControllerSettle
    \/ Store
    \/ AfterChain
    \/ Respond
    \/ ActiveIsMain /\ Catch

SpecDetached == Init /\ [][NextDetached]_vars

----------------------------------------------------------------------------
(* Middleware that writes ctx.state *)

\* registered middleware in the specification SpecState
MaxStateMiddlewares == 2

\* middleware that, before it awaits next(), sets ctx.state.seen, replaces
\* the reserved result entry, or deletes it
StateMiddlewares == {"mark", "replace", "delete"}

WrittenState(kind) ==
    IF kind = "mark" THEN [ctxState EXCEPT !["seen"] = Str("yes")]
    ELSE IF kind = "replace" THEN [ctxState EXCEPT ![ResultKey] = Str("replaced")]
    ELSE [ctxState EXCEPT ![ResultKey] = Undefined]

\* the body of such a chain[i] up to its await next()
MiddlewareWrites ==
    /\ pc \in {"beforeRun", "afterRun"}
    /\ stack # <<>>
    /\ Top.at = "fn"
    /\ Chain(phase)[Top.i + 1] \in StateMiddlewares
    /\ ctxState' = WrittenState(Chain(phase)[Top.i + 1])
    /\ stack' = Append([stack EXCEPT ![Len(stack)].at = "next1"],
                       Frame(NextIndex(Top.i), "enter"))
    /\ log' = log \o <<Event("write", phase, Top.i,
                             [mw |-> Chain(phase)[Top.i + 1]]),
                       Event("next", phase, Top.i, Undefined)>>
    /\ UNCHANGED <<beforeMiddlewares, afterMiddlewares, routes, entry,
                   cancelled, pc, phase, idx, result, thrown, detached, impls,
                   ctx, waiting, orm, app>>

NextState ==
    \/ \E mw \in {"pass"} \cup StateMiddlewares, ph \in UsePhases :
            /\ Len(beforeMiddlewares) + Len(afterMiddlewares) < MaxStateMiddlewares
            /\ Use(mw, ph)
    \/ \E name \in Methods, c \in ControllerKinds : Handle(name, c)
    \/ \E name \in Methods : ToUnaryHandler(name)
    \/ \E c \in BOOLEAN, md \in {Undefined, RequestMetadata} : InvokeCall(c, md)
    \/ Cancel
    \/ EngineStep
    \/ MiddlewareWrites

SpecState == Init /\ [][NextState]_vars

----------------------------------------------------------------------------
(* Concurrent calls on one router *)

\* calls in flight at once, and registered middleware, in SpecConcurrent
MaxConcurrentCalls == 2
MaxConcurrentMiddlewares == 2

\* What belongs to one invocation of the entry point: its locals (ctx, the
\* cursor of its runChain, result), its call object and its position.  The
\* call that is running has them in the variables; the others wait.
ActiveCall ==
    [pc |-> pc, phase |-> phase, idx |-> idx, stack |-> stack,
     thrown |-> thrown, ctxState |-> ctxState, result |-> result,
     cancelled |-> cancelled, log |-> log, ctx |-> ctx]

LoadCall(f) ==
    /\ pc' = f.pc
    /\ phase' = f.phase
    /\ idx' = f.idx
    /\ stack' = f.stack
    /\ thrown' = f.thrown
    /\ ctxState' = f.ctxState
    /\ result' = f.result
    /\ cancelled' = f.cancelled
    /\ log' = f.log
    /\ ctx' = f.ctx

\* the running call is suspended at an await (or has finished)
AtAwait ==
    /\ pc \in {"beforeRun", "afterRun", "awaitController", "done"}
    /\ IF stack = <<>> THEN TRUE ELSE Top.at # "enter"

\* the transport invokes the entry point for another call while the running
\* one is suspended or has finished: the new invocation starts with an empty
\* stack, and what its locals will be is up to the code that initialises
\* them
Accept ==
    /\ AtAwait
    /\ Len(waiting) + 1 < MaxConcurrentCalls
    /\ waiting' = Append(waiting, ActiveCall)
    /\ pc' = "none"
    /\ stack' = <<>>
    /\ UNCHANGED <<beforeMiddlewares, afterMiddlewares, routes, entry,
                   cancelled, phase, idx, ctxState, result, thrown, log,
                   detached, impls, ctx, orm, app>>

\* the event loop resumes another call that has not finished
SwitchCall(d) ==
    /\ d \in DOMAIN waiting
    /\ waiting[d].pc # "done"
    /\ AtAwait
    /\ waiting' = [waiting EXCEPT ![d] = ActiveCall]
    /\ LoadCall(waiting[d])
    /\ UNCHANGED <<beforeMiddlewares, afterMiddlewares, routes, entry,
                   detached, impls, orm, app>>

NextConcurrent ==
    \/ /\ log = <<>>
       /\ \/ \E mw \in {"twice", "mark"}, ph \in UsePhases :
                /\ Len(beforeMiddlewares) + Len(afterMiddlewares)
                       < MaxConcurrentMiddlewares
                /\ Use(mw, ph)
          \/ \E name \in Methods : Handle(name, "returns")
          \/ \E name \in Methods : ToUnaryHandler(name)
    \/ \E c \in BOOLEAN : Invoke(c)
    \/ Accept
    \/ \E d \in 1..MaxConcurrentCalls : SwitchCall(d)
    \/ EngineStep
    \/ MiddlewareWrites

SpecConcurrent == Init /\ [][NextConcurrent]_vars

----------------------------------------------------------------------------
(* use() while a call is in flight *)

\* registered middleware in the specification SpecServingUse
MaxServingMiddlewares == 3

\* a use() that puts the middleware in front of its list
UseInFlightPrepending(mw, ph) ==
    /\ AtAwait
    /\ pc # "done"
    /\ Len(beforeMiddlewares) + Len(afterMiddlewares) < MaxServingMiddlewares
    /\ IF ph = "after"
       THEN /\ afterMiddlewares' = <<mw>> \o afterMiddlewares
            /\ UNCHANGED beforeMiddlewares
       ELSE /\ beforeMiddlewares' = <<mw>> \o beforeMiddlewares
            /\ UNCHANGED afterMiddlewares
    /\ UNCHANGED <<routes, entry, cancelled, pc, phase, idx, stack, ctxState,
                   result, thrown, log, detached, impls, ctx, waiting, orm, app>>

\* use(mw, phase), lines 78-86, called by another task while the call is
\* suspended at an await: the lists the call's chains run over are these
UseInFlight(mw, ph) ==
    /\ AtAwait
    /\ pc # "done"
    /\ Len(beforeMiddlewares) + Len(afterMiddlewares) < MaxServingMiddlewares
    /\ IF ph = "after"
       THEN /\ afterMiddlewares' = Append(afterMiddlewares, mw)
            /\ UNCHANGED beforeMiddlewares
       ELSE /\ beforeMiddlewares' = Append(beforeMiddlewares, mw)
            /\ UNCHANGED afterMiddlewares
    /\ UNCHANGED <<routes, entry, cancelled, pc, phase, idx, stack, ctxState,
                   result, thrown, log, detached, impls, ctx, waiting, orm, app>>

NextServingUse ==
    \/ \E mw \in MiddlewareKinds, ph \in UsePhases :
            /\ Len(beforeMiddlewares) + Len(afterMiddlewares) < MaxServingMiddlewares
            /\ Use(mw, ph)
    \/ \E name \in Methods, c \in ControllerKinds : Handle(name, c)
    \/ \E name \in Methods : ToUnaryHandler(name)
    \/ \E c \in BOOLEAN : Invoke(c)
    \/ \E mw \in MiddlewareKinds, ph \in UsePhases : UseInFlight(mw, ph)
    \/ EngineStep

SpecServingUse == Init /\ [][NextServingUse]_vars

----------------------------------------------------------------------------
(* Handlers that log: core/logger/Logger.ts, core/base/BaseModule.ts *)

Bool(b) == [t |-> "boolean", b |-> b]

\* config/logger.config.ts
FILE_ENABLE == TRUE
FILE_CHECK_PATH == FALSE

\* Which of the logger's collaborators fail during one log statement:
\* ConsoleWriter.print (JSON.stringify of details, console.log),
\* FileWriter.ensureDirectoryStructure, LogCompressor.compress or
\* FileWriter.append, and the print inside saveLog's catch
LoggerFaults == [print : BOOLEAN, ensure : BOOLEAN, store : BOOLEAN,
                 reprint : BOOLEAN]

\* options of a log statement: ops?.log?.save and ops?.log?.checkPath
LogOptions == [save : {Undefined, Bool(TRUE), Bool(FALSE)},
               checkPath : {Undefined, Bool(TRUE), Bool(FALSE)}]

\* Logger.saveLog, lines 93-111
SaveLog(f) ==
    IF f.store
    THEN IF f.reprint THEN "throws" ELSE "returns"
    ELSE "returns"

\* Logger.log, lines 65-90
LoggerLog(ops, f) ==
    IF f.print THEN "throws"
    ELSE IF ~Coalesce(ops.save, Bool(FILE_ENABLE)).b THEN "returns"
    ELSE IF Coalesce(ops.checkPath, Bool(FILE_CHECK_PATH)).b /\ f.ensure
         THEN "throws"
    ELSE SaveLog(f)

\* BaseModule.info, lines 101-113: not saved unless asked for, and the
\* options object is rebuilt with save alone
InfoOptions(ops) ==
    [save |-> Coalesce(ops.save, Bool(FALSE)), checkPath |-> Undefined]

\* controllers that log and then return: HealthController.check calls
\* this.info(message); "audit" calls this.warn(message, extra, ops)
HealthCheck == "check"
AuditingController == "audit"

LoggerFailure == Err(Undefined, Str("logger failed"), Undefined)
Serving == [t |-> "response", status |-> "SERVING"]

\* HealthController.check, lines 28-36, and a handler logging with options
LoggingControllerSettle ==
    /\ pc = "awaitController"
    /\ entry.controller \in {HealthCheck, AuditingController}
    /\ \E f \in LoggerFaults, o \in LogOptions :
          LET ops == IF entry.controller = HealthCheck
                     THEN InfoOptions([save |-> Undefined, checkPath |-> Undefined])
                     ELSE o
              said == Event("logger", "handler", -1,
                            [fault |-> f, ops |-> ops,
                             failed |-> f.print
                                        \/ (f.ensure /\ ops.checkPath = Bool(TRUE))
                                        \/ f.store])
          IN  /\ entry.controller = HealthCheck => o.save = Undefined /\ o.checkPath = Undefined
              /\ IF LoggerLog(ops, f) = "throws"
                 THEN /\ Raise(LoggerFailure)
                      /\ log' = log \o <<said, Event("throw", "handler", -1,
                                                     LoggerFailure)>>
                      /\ UNCHANGED result
                 ELSE /\ result' = Serving
                      /\ log' = log \o <<said, Event("return", "none", -1, Serving)>>
                      /\ pc' = "store"
                      /\ UNCHANGED <<stack, thrown>>
    /\ UNCHANGED <<beforeMiddlewares, afterMiddlewares, routes, entry,
                   cancelled, phase, idx, ctxState, detached, impls, ctx,
                   waiting, orm, app>>

\* registered middleware in the specification SpecLogging
MaxLoggingMiddlewares == 2

NextLogging ==
    \/ \E mw \in MiddlewareKinds, ph \in UsePhases :
            /\ Len(beforeMiddlewares) + Len(afterMiddlewares) < MaxLoggingMiddlewares
            /\ Use(mw, ph)
    \/ \E name \in Methods,
          c \in ControllerKinds \cup {HealthCheck, AuditingController} :
            Handle(name, c)
    \/ \E name \in Methods : ToUnaryHandler(name)
    \/ \E c \in BOOLEAN : Invoke(c)
    \/ EngineStep
    \/ LoggingControllerSettle

SpecLogging == Init /\ [][NextLogging]_vars

----------------------------------------------------------------------------
(* OrmDatabaseModule.connect, core/base/OrmDatabase.module.ts, and the      *)
(* classification of its failures, core/error/Errors.classify.ts           *)

\* connect() calls, and doConnect attempts of one connect(), in SpecOrm
MaxConnects == 2
MaxConnectAttempts == 6

\* DATABASE_CONFIG.CONNECT, when the environment sets nothing
MAX_ATTEMPTS == 5
BASE_DELAY_MS == 250
FACTOR == 2
MAX_DELAY_MS == 5000

\* JavaScript numbers that are not all integers: the fraction n/d, d > 0
Q(n, d) == [n |-> n, d |-> d]
QLeq(a, b) == a.n * b.d <= b.n * a.d
QEq(a, b) == a.n * b.d = b.n * a.d
QMin(a, b) == IF QLeq(a, b) THEN a ELSE b
QMul(a, b) == Q(a.n * b.n, a.d * b.d)
RECURSIVE QPow(_, _)
QPow(f, k) == IF k = 0 THEN Q(1, 1) ELSE QMul(f, QPow(f, k - 1))

\* a destructuring default: taken when the property is undefined
Default(v, d) == IF v = Undefined THEN d ELSE v

\* the retry argument of connect()
RetryOptions ==
    [maxAttempts : {Undefined, Num(0), Num(1), Num(2), Num(3)},
     baseDelayMs : {Undefined, Q(0, 1), Q(16, 1), Q(64, 1)},
     factor : {Undefined, Q(1, 2), Q(1, 1), Q(3, 1)},
     maxDelayMs : {Undefined, Q(8, 1), Q(32, 1)}]

\* lines 65-70
Destructured(retry) ==
    [maxAttempts |-> Default(retry.maxAttempts, Num(MAX_ATTEMPTS)).n,
     baseDelayMs |-> Default(retry.baseDelayMs, Q(BASE_DELAY_MS, 1)),
     factor |-> Default(retry.factor, Q(FACTOR, 1)),
     maxDelayMs |-> Default(retry.maxDelayMs, Q(MAX_DELAY_MS, 1))]

\* What doConnect may reject with.  cls is the class of the value, code its
\* own code property and driver the code of its driverError ("none": no such
\* string property); every one of them has a message.
PgCodes == {"3D000", "28P01", "28000", "57P03", "53300", "08001", "XX000"}
SysCodes == {"ECONNREFUSED", "ETIMEDOUT"}
ConnectErrors ==
    {[cls |-> "QueryFailedError", code |-> "none", driver |-> c] :
        c \in PgCodes \cup {"none"}}
    \cup {[cls |-> "Error", code |-> c, driver |-> "none"] :
            c \in PgCodes \cup SysCodes \cup {"none"}}
    \cup {[cls |-> "TypeORMError", code |-> "none", driver |-> "none"]}

\* mapPgCode, lines 27-44: the retryable flag
MapPgCode(code) ==
    IF code = "3D000" THEN FALSE
    ELSE IF code = "28P01" THEN FALSE
    ELSE IF code = "28000" THEN FALSE
    ELSE TRUE

\* toOrmConnectError, lines 46-120: what connect() reads of its result
ToOrmConnectError(e) ==
    IF e.cls = "QueryFailedError" /\ e.driver # "none"
    THEN [t |-> "error", code |-> e.driver, retryable |-> MapPgCode(e.driver)]
    ELSE IF e.code # "none"
    THEN [t |-> "error", code |-> e.code, retryable |-> MapPgCode(e.code)]
    ELSE [t |-> "error", code |-> "none", retryable |-> TRUE]

RouterVars ==
    <<beforeMiddlewares, afterMiddlewares, routes, entry, cancelled, pc, phase,
      idx, stack, ctxState, result, thrown, log, detached, impls, ctx, waiting,
      app>>

\* connect(retry), lines 62-74
Connect(retry) ==
    /\ orm.pc \in {"idle", "returned"}
    /\ orm.calls < MaxConnects
    /\ IF orm.status = "CONNECTED"
       THEN orm' = [orm EXCEPT !.pc = "returned", !.calls = @ + 1,
                               !.retry = Destructured(retry),
                               !.attempt = 0, !.invoked = 0, !.failed = 0,
                               !.ok = FALSE, !.waits = <<>>,
                               !.last = [t |-> "none"]]
       ELSE orm' = [orm EXCEPT !.pc = "while", !.calls = @ + 1,
                               !.status = "CONNECTING",
                               !.retry = Destructured(retry),
                               !.attempt = 0,
                               !.delay = Destructured(retry).baseDelayMs,
                               !.invoked = 0, !.failed = 0, !.ok = FALSE,
                               !.waits = <<>>, !.last = [t |-> "none"]]
    /\ UNCHANGED RouterVars

\* lines 78-81: the loop test, attempt++ and the call of doConnect
Attempt ==
    /\ orm.pc = "while"
    /\ IF orm.retry.maxAttempts = 0 \/ orm.attempt < orm.retry.maxAttempts
       THEN orm' = [orm EXCEPT !.attempt = @ + 1, !.invoked = @ + 1,
                               !.pc = "doConnect"]
       ELSE orm' = [orm EXCEPT !.pc = "returned"]
    /\ UNCHANGED RouterVars

\* lines 81-84
DoConnectResolves ==
    /\ orm.pc = "doConnect"
    /\ orm' = [orm EXCEPT !.status = "CONNECTED", !.ok = TRUE,
                          !.pc = "returned"]
    /\ UNCHANGED RouterVars

\* a catch that gives up only after one attempt more than maxAttempts
DoConnectRejectsPastLimit(e) ==
    /\ orm.pc = "doConnect"
    /\ orm.attempt < MaxConnectAttempts \/ ~ToOrmConnectError(e).retryable
    /\ LET dbErr == ToOrmConnectError(e)
           failed == [orm EXCEPT !.failed = @ + 1, !.last = dbErr,
                                 !.status = "ERROR"]
       IN  IF ~dbErr.retryable
           THEN orm' = [failed EXCEPT !.pc = "returned"]
           ELSE IF orm.retry.maxAttempts # 0 /\ orm.attempt > orm.retry.maxAttempts
           THEN orm' = [failed EXCEPT !.pc = "returned"]
           ELSE orm' = [failed EXCEPT
                           !.pc = "sleep",
                           !.waits = Append(@, QMin(orm.delay,
                                                    orm.retry.maxDelayMs))]
    /\ UNCHANGED RouterVars

\* a catch that looks at the attempt limit only
DoConnectRejectsIgnoringRetryable(e) ==
    /\ orm.pc = "doConnect"
    /\ orm.attempt < MaxConnectAttempts \/ ~ToOrmConnectError(e).retryable
    /\ LET dbErr == ToOrmConnectError(e)
           failed == [orm EXCEPT !.failed = @ + 1, !.last = dbErr,
                                 !.status = "ERROR"]
       IN  IF orm.retry.maxAttempts # 0 /\ orm.attempt >= orm.retry.maxAttempts
           THEN orm' = [failed EXCEPT !.pc = "returned"]
           ELSE orm' = [failed EXCEPT
                           !.pc = "sleep",
                           !.waits = Append(@, QMin(orm.delay,
                                                    orm.retry.maxDelayMs))]
    /\ UNCHANGED RouterVars

\* lines 85-112 and 117-122: doConnect rejects with e.  The failure is
\* classified; a non-retryable one, or the last allowed attempt, is thrown
\* to the outer catch, which leaves the status ERROR; otherwise the timer of
\* line 112 is set.  An unlimited connect() is followed for
\* MaxConnectAttempts attempts.
DoConnectRejects(e) ==
    /\ orm.pc = "doConnect"
    /\ orm.attempt < MaxConnectAttempts \/ ~ToOrmConnectError(e).retryable
    /\ LET dbErr == ToOrmConnectError(e)
           failed == [orm EXCEPT !.failed = @ + 1, !.last = dbErr,
                                 !.status = "ERROR"]
       IN  IF ~dbErr.retryable
           THEN orm' = [failed EXCEPT !.pc = "returned"]
           ELSE IF orm.retry.maxAttempts # 0 /\ orm.attempt >= orm.retry.maxAttempts
           THEN orm' = [failed EXCEPT !.pc = "returned"]
           ELSE orm' = [failed EXCEPT
                           !.pc = "sleep",
                           !.waits = Append(@, QMin(orm.delay,
                                                    orm.retry.maxDelayMs))]
    /\ UNCHANGED RouterVars

\* a backoff whose running delay is not capped
BackoffElapsedUncapped ==
    /\ orm.pc = "sleep"
    /\ orm' = [orm EXCEPT !.delay = QMul(orm.delay, orm.retry.factor),
                          !.status = "CONNECTING", !.pc = "while"]
    /\ UNCHANGED RouterVars

\* lines 112-114: the timer fires
BackoffElapsed ==
    /\ orm.pc = "sleep"
    /\ orm' = [orm EXCEPT
                  !.delay = QMin(QMul(orm.delay, orm.retry.factor),
                                 orm.retry.maxDelayMs),
                  !.status = "CONNECTING", !.pc = "while"]
    /\ UNCHANGED RouterVars

NextOrm ==
    \/ \E retry \in RetryOptions : Connect(retry)
    \/ Attempt
    \/ DoConnectResolves
    \/ \E e \in ConnectErrors : DoConnectRejects(e)
    \/ BackoffElapsed

SpecOrm == Init /\ [][NextOrm]_vars

----------------------------------------------------------------------------
(* OrmDatabaseModule.disconnect, and a disconnect() that meets a connect() *)

\* disconnect() calls in SpecOrmLifecycle
MaxDisconnects == 2

\* connect() is between its first statement and its return
Connecting == orm.pc \in {"while", "doConnect", "sleep"}

\* disconnect(), lines 125-134, up to its return or its await of
\* doDisconnect.  during: a connect() was in progress when it was called.
Disconnect ==
    /\ orm.dpc \in {"idle", "returned"}
    /\ orm.dcalls < MaxDisconnects
    /\ IF orm.status \notin {"CONNECTED", "ERROR"}
       THEN orm' = [orm EXCEPT !.status = "DISCONNECTED", !.dpc = "returned",
                               !.dcalls = @ + 1, !.during = Connecting]
       ELSE orm' = [orm EXCEPT !.dpc = "doDisconnect", !.dcalls = @ + 1,
                               !.dinvoked = @ + 1, !.during = Connecting]
    /\ UNCHANGED RouterVars

\* a disconnect() that lets the failure of doDisconnect out
DoDisconnectSettlesRethrowing(resolved) ==
    /\ orm.dpc = "doDisconnect"
    /\ orm' = IF resolved
              THEN [orm EXCEPT !.status = "DISCONNECTED", !.dpc = "returned"]
              ELSE [orm EXCEPT !.dthrew = TRUE, !.dpc = "returned"]
    /\ UNCHANGED RouterVars

\* lines 134-142: doDisconnect resolves (lines 135-136) or rejects (the
\* catch, lines 137-141); either way the status is set and nothing is thrown
DoDisconnectSettles(resolved) ==
    /\ orm.dpc = "doDisconnect"
    /\ orm' = [orm EXCEPT !.status = "DISCONNECTED", !.dpc = "returned"]
    /\ UNCHANGED RouterVars

\* the retry argument of connect() in SpecOrmLifecycle: the delays left to
\* the configuration
LifecycleRetries ==
    [maxAttempts : {Undefined, Num(0), Num(2)},
     baseDelayMs : {Undefined},
     factor : {Undefined},
     maxDelayMs : {Undefined}]

NextOrmLifecycle ==
    \/ \E retry \in LifecycleRetries : Connect(retry)
    \/ Attempt
    \/ DoConnectResolves
    \/ \E e \in ConnectErrors : DoConnectRejects(e)
    \/ BackoffElapsed
    \/ Disconnect
    \/ \E resolved \in BOOLEAN : DoDisconnectSettles(resolved)

SpecOrmLifecycle == Init /\ [][NextOrmLifecycle]_vars

-----------------------------------------------------------------------------
(* toOrmConnectError over error objects of every shape *)

\* the values of an error's code property: a string, or not a string
ErrorCodes == PgCodes \cup SysCodes \cup {"none"}

\* the driverError property of a QueryFailedError: absent, or an object with
\* a code and a message that are strings or not
DriverErrors ==
    {[t |-> "none"]}
    \cup [t : {"object"}, code : ErrorCodes, message : BOOLEAN]

\* the values doConnect can reject with: cls is the class of the object, code
\* its code property, message whether its message property is a string
ThrownErrors ==
    [cls : {"QueryFailedError"}, code : ErrorCodes, message : BOOLEAN,
     driverError : DriverErrors]
    \cup [cls : {"TypeORMError", "Error", "object"}, code : ErrorCodes,
          message : BOOLEAN, driverError : {[t |-> "none"]}]

\* Errors.guards.ts, lines 13-15; QueryFailedError extends TypeORMError
IsTypeOrmError(e) == e.cls \in {"TypeORMError", "QueryFailedError"}

\* Errors.guards.ts, lines 17-19
IsQueryFailedError(e) == e.cls = "QueryFailedError"

\* Errors.guards.ts, lines 22-28
IsPgDatabaseError(e) ==
    /\ e.t = "object"
    /\ e.code # "none"
    /\ e.message

\* Errors.guards.ts, lines 31-35
IsQueryFailedWithPg(e) ==
    IsQueryFailedError(e) /\ IsPgDatabaseError(e.driverError)

\* Errors.guards.ts, lines 38-43
IsNodeSysError(e, code) == e.code # "none" /\ e.code = code

\* mapPgCode, lines 27-44: the kind and the retryable flag
MapPgCodeKind(code) ==
    IF code = "3D000" THEN [kind |-> "DB_NOT_FOUND", retryable |-> FALSE]
    ELSE IF code = "28P01" THEN [kind |-> "AUTH_FAILED", retryable |-> FALSE]
    ELSE IF code = "28000" THEN [kind |-> "ROLE_NOT_FOUND", retryable |-> FALSE]
    ELSE IF code = "57P03"
    THEN [kind |-> "CANNOT_CONNECT_NOW", retryable |-> TRUE]
    ELSE IF code = "53300"
    THEN [kind |-> "TOO_MANY_CONNECTIONS", retryable |-> TRUE]
    ELSE IF code = "08001"
    THEN [kind |-> "CONNECTION_FAILED", retryable |-> TRUE]
    ELSE [kind |-> "UNKNOWN", retryable |-> TRUE]

\* toOrmConnectError, lines 46-120: the branches in the order of the code
OrmConnectError(e) ==
    IF IsQueryFailedWithPg(e)
    THEN [driver |-> "postgres", kind |-> MapPgCodeKind(e.driverError.code).kind,
          code |-> e.driverError.code,
          retryable |-> MapPgCodeKind(e.driverError.code).retryable]
    ELSE IF IsPgDatabaseError([t |-> "object", code |-> e.code,
                               message |-> e.message])
    THEN [driver |-> "postgres", kind |-> MapPgCodeKind(e.code).kind,
          code |-> e.code, retryable |-> MapPgCodeKind(e.code).retryable]
    ELSE IF IsNodeSysError(e, "ECONNREFUSED")
    THEN [driver |-> "postgres", kind |-> "CONNECTION_FAILED",
          code |-> "none", retryable |-> TRUE]
    ELSE IF IsNodeSysError(e, "ETIMEDOUT")
    THEN [driver |-> "postgres", kind |-> "TIMEOUT",
          code |-> "none", retryable |-> TRUE]
    ELSE IF IsTypeOrmError(e)
    THEN [driver |-> "unknown", kind |-> "UNKNOWN",
          code |-> "none", retryable |-> TRUE]
    ELSE [driver |-> "unknown", kind |-> "UNKNOWN",
          code |-> "none", retryable |-> TRUE]

\* one call of toOrmConnectError: orm.last keeps the argument and the result
Classify(e) ==
    /\ orm' = [orm EXCEPT !.last = [t |-> "classified", original |-> e,
                                    err |-> OrmConnectError(e)]]
    /\ UNCHANGED RouterVars

NextClassify == \E e \in ThrownErrors : Classify(e)

SpecClassify == Init /\ [][NextClassify]_vars

-----------------------------------------------------------------------------
(* App: services, the gRPC server, start() and stop() *)
(* One start() or stop() is in flight at a time; addService, initRouters   *)
(* are synchronous and may be called at any moment.  The app is given the   *)
(* ORM module at most once, before its first start(), as index.ts does.     *)

MaxServices == 2
MaxStartCalls == 3
MaxStopCalls == 1
MaxInitRouters == 1

\* every variable but app
OutsideApp ==
    <<beforeMiddlewares, afterMiddlewares, routes, entry, cancelled, pc, phase,
      idx, stack, ctxState, result, thrown, log, detached, impls, ctx, waiting,
      orm>>

\* connect() failures the app's ORM module meets: one that is retried and one
\* that is not
AppConnectErrors ==
    {[cls |-> "Error", code |-> "ECONNREFUSED", driver |-> "none"],
     [cls |-> "Error", code |-> "28P01", driver |-> "none"]}

\* orm.connect() of line 163 is called without options
NoRetryOptions ==
    [maxAttempts |-> Undefined, baseDelayMs |-> Undefined,
     factor |-> Undefined, maxDelayMs |-> Undefined]

\* lines 104-116: the entry is pushed whether the app is started or not; late
\* says that the warning of lines 105-113 was given, at the number of starts
\* completed so far
AddService ==
    /\ Len(app.services) < MaxServices
    /\ app' = [app EXCEPT
                  !.services = Append(@, [late |-> app.started,
                                          at |-> app.starts])]
    /\ UNCHANGED OutsideApp

\* lines 152-155
AddOrm ==
    /\ app.orms = 0
    /\ app.startCalls = 0
    /\ app' = [app EXCEPT !.orms = 1]
    /\ UNCHANGED OutsideApp

\* an initRouters that mounts its services on every call
InitRoutersRemounting(a) ==
    [a EXCEPT !.mounted = @ \o [i \in 1 .. Len(a.services) |-> i],
              !.initedRouters = TRUE]

\* lines 136-146: what initRouters does to the app
InitRoutersOf(a) ==
    IF a.initedRouters
    THEN a
    ELSE [a EXCEPT !.mounted = @ \o [i \in 1 .. Len(a.services) |-> i],
                   !.initedRouters = TRUE]

\* initRouters() called from outside
InitRouters ==
    /\ app.initCalls < MaxInitRouters
    /\ app' = [InitRoutersOf(app) EXCEPT !.initCalls = @ + 1]
    /\ UNCHANGED OutsideApp

\* lines 187-197: the call of bindAsync
BindAsync(a) == [a EXCEPT !.pc = "bindAsync", !.binds = @ + 1]

\* lines 174-187, up to the first await: on a started app nothing; otherwise
\* the routers are mounted if they were not, and either initDatabases awaits
\* orm.connect() (lines 157-163) or bindAsync is called
Start ==
    /\ app.pc = "idle"
    /\ app.startCalls < MaxStartCalls
    /\ LET called == [app EXCEPT !.startCalls = @ + 1]
           routed == InitRoutersOf(called)
       IN  IF app.started
           THEN app' = called
           ELSE IF ~app.initedDatabases /\ app.orms > 0
           THEN app' = [routed EXCEPT !.pc = "connect", !.mark = orm.calls]
           ELSE app' = BindAsync([routed EXCEPT !.initedDatabases = TRUE])
    /\ UNCHANGED OutsideApp

\* line 163: connect() as far as its first await
AppConnect ==
    /\ app.pc = "connect"
    /\ orm.calls = app.mark
    /\ Connect(NoRetryOptions)

\* lines 164-187: connect() has returned, whatever the status it left;
\* initedDatabases is set and bindAsync is called
ConnectReturned ==
    /\ app.pc = "connect"
    /\ orm.calls = app.mark + 1
    /\ orm.pc = "returned"
    /\ app' = BindAsync([app EXCEPT !.initedDatabases = TRUE])
    /\ UNCHANGED OutsideApp

\* lines 191-199: the callback of bindAsync; with an error start() rejects
BindCallback(err) ==
    /\ app.pc = "bindAsync"
    /\ IF err
       THEN app' = [app EXCEPT !.pc = "idle"]
       ELSE app' = [app EXCEPT !.pc = "idle", !.started = TRUE,
                               !.starts = @ + 1, !.server = "serving"]
    /\ UNCHANGED OutsideApp

\* lines 216-243: the executor of stop()'s promise: a new done flag,
\* tryShutdown called, the timer set
Shutdown(a) ==
    [a EXCEPT !.pc = "shutdown", !.done = FALSE, !.finishes = 0,
              !.forced = FALSE, !.tryShutdown = "pending",
              !.timer = "pending", !.completedFirst = FALSE]

\* lines 206-216, up to the first await: on an app that is not started
\* nothing; otherwise orm.disconnect() is awaited (lines 212-214), and
\* without an ORM module the promise is entered
Stop ==
    /\ app.pc = "idle"
    /\ app.stopCalls < MaxStopCalls
    /\ LET called == [app EXCEPT !.stopCalls = @ + 1]
       IN  IF ~app.started
           THEN app' = called
           ELSE IF app.orms > 0
           THEN app' = [called EXCEPT !.pc = "disconnect",
                                      !.mark = orm.dcalls]
           ELSE app' = Shutdown(called)
    /\ UNCHANGED OutsideApp

\* line 213: disconnect() as far as its first await
AppDisconnect ==
    /\ app.pc = "disconnect"
    /\ orm.dcalls = app.mark
    /\ Disconnect

\* lines 214-216: disconnect() has returned
DisconnectReturned ==
    /\ app.pc = "disconnect"
    /\ orm.dcalls = app.mark + 1
    /\ orm.dpc = "returned"
    /\ app' = Shutdown(app)
    /\ UNCHANGED OutsideApp

\* a finish that does not look at done
FinishUnguarded(a) ==
    [a EXCEPT !.done = TRUE, !.started = FALSE, !.finishes = @ + 1,
              !.pc = "idle"]

\* lines 219-226: finish
Finish(a) ==
    IF a.done
    THEN a
    ELSE [a EXCEPT !.done = TRUE, !.started = FALSE, !.finishes = @ + 1,
                   !.pc = "idle"]

\* lines 228-234: the callback of tryShutdown, with an error or without; the
\* server has shut down when it reports no error
TryShutdownCallback(err) ==
    /\ app.tryShutdown = "pending"
    /\ app' = Finish([app EXCEPT
                         !.tryShutdown = "called",
                         !.completedFirst = ~app.done,
                         !.server = IF ~err /\ ~app.done
                                    THEN "shutdown" ELSE @])
    /\ UNCHANGED OutsideApp

\* a timer that forces the shutdown whatever done says
TimerFiresUnguarded ==
    /\ app.timer = "pending"
    /\ app' = Finish([app EXCEPT !.timer = "fired", !.forced = TRUE,
                                 !.server = "shutdown"])
    /\ UNCHANGED OutsideApp

\* lines 238-243: the timer of stop()
TimerFires ==
    /\ app.timer = "pending"
    /\ IF app.done
       THEN app' = [app EXCEPT !.timer = "fired"]
       ELSE app' = Finish([app EXCEPT !.timer = "fired", !.forced = TRUE,
                                      !.server = "shutdown"])
    /\ UNCHANGED OutsideApp

NextApp ==
    \/ AddService
    \/ AddOrm
    \/ InitRouters
    \/ Start
    \/ AppConnect
    \/ Attempt
    \/ DoConnectResolves
    \/ \E e \in AppConnectErrors : DoConnectRejects(e)
    \/ BackoffElapsed
    \/ ConnectReturned
    \/ \E err \in BOOLEAN : BindCallback(err)
    \/ Stop
    \/ AppDisconnect
    \/ \E resolved \in BOOLEAN : DoDisconnectSettles(resolved)
    \/ DisconnectReturned
    \/ \E err \in BOOLEAN : TryShutdownCallback(err)
    \/ TimerFires

SpecApp == Init /\ [][NextApp]_vars

\* start() and stop() alone, on an app without services
NextAppLive ==
    \/ AddOrm
    \/ Start
    \/ AppConnect
    \/ Attempt
    \/ DoConnectResolves
    \/ \E e \in AppConnectErrors : DoConnectRejects(e)
    \/ BackoffElapsed
    \/ ConnectReturned
    \/ \E err \in BOOLEAN : BindCallback(err)
    \/ Stop
    \/ AppDisconnect
    \/ \E resolved \in BOOLEAN : DoDisconnectSettles(resolved)
    \/ DisconnectReturned
    \/ \E err \in BOOLEAN : TryShutdownCallback(err)
    \/ TimerFires

\* the app's own steps and the timer are taken when they can be; the
\* callback of tryShutdown and the promise of doDisconnect belong to the
\* server and to the driver
SpecAppLive ==
    /\ Init
    /\ [][NextAppLive]_vars
    /\ WF_vars(AppDisconnect)
    /\ WF_vars(DisconnectReturned)
    /\ WF_vars(TimerFires)

----------------------------------------------------------------------------
(* Reading the history *)

Callbacks == SelectSeq(log, LAMBDA e : e.ev = "callback")
Throws == SelectSeq(log, LAMBDA e : e.ev = "throw")
Returns == SelectSeq(log, LAMBDA e : e.ev = "return")
Dispatched == log # <<>>
CancelledAtEntry == Dispatched /\ log[1].val.cancelled
IsStage(e) == e.ev \in {"start", "handler"}
StageRan(p, i) ==
    \E k \in DOMAIN log : log[k].ev = "start" /\ log[k].phase = p /\ log[k].i = i
HandlerRan == \E k \in DOMAIN log : log[k].ev = "handler"
NextCalls(p, i) ==
    {k \in DOMAIN log : log[k].ev = "next" /\ log[k].phase = p /\ log[k].i = i}
HasDoubleNext ==
    \E p \in {"before", "after"}, i \in 0..MaxMiddlewares :
        Cardinality(NextCalls(p, i)) >= 2
Outcome == Callbacks[1].val

----------------------------------------------------------------------------
(* C1: the transport callback is invoked exactly once per call: never twice
   at any moment, and once when the entry point has finished, whatever the
   stages do (return, throw, skip next, call next twice, cancelled call). *)
C1_ExactlyOneCallback ==
    /\ Len(Callbacks) <= 1
    /\ pc = "done" => Len(Callbacks) = 1

C1_Witness ==
    /\ pc = "done"
    /\ Len(Callbacks) = 1
    /\ HasDoubleNext
    /\ \E i \in 1..Len(beforeMiddlewares) : beforeMiddlewares[i] = "skip"

(* C2: with before-chain [b1,b2], handler h and after-chain [a1,a2], when b1
   returns without invoking its continuation and without throwing, none of
   b2, h, a1, a2 executes. *)
C2_ShortCircuit ==
    (/\ Len(beforeMiddlewares) >= 1
     /\ beforeMiddlewares[1] = "skip"
     /\ StageRan("before", 0))
    => /\ ~HandlerRan
       /\ \A i \in 1..MaxMiddlewares : ~StageRan("before", i)
       /\ \A i \in 0..MaxMiddlewares : ~StageRan("after", i)

(* C3: in a call that is not cancelled, where every middleware invokes its
   continuation once and nothing fails, the stages start in the order
   b1..bn, h, a1..am (registration order, any lengths) and the success
   callback comes last. *)
AllPass ==
    /\ \A i \in 1..Len(beforeMiddlewares) : beforeMiddlewares[i] = "pass"
    /\ \A i \in 1..Len(afterMiddlewares) : afterMiddlewares[i] = "pass"
    /\ entry.t = "handler"
    /\ entry.controller = "returns"

ExpectedOrder ==
    LET nb == Len(beforeMiddlewares)
        na == Len(afterMiddlewares)
    IN  [k \in 1..(nb + na + 2) |->
            IF k <= nb THEN <<"start", "before", k - 1>>
            ELSE IF k = nb + 1 THEN <<"handler", "none", -1>>
            ELSE IF k <= nb + 1 + na THEN <<"start", "after", k - nb - 2>>
            ELSE <<"callback", "none", -1>>]

ObservedOrder ==
    LET s == SelectSeq(log, LAMBDA e : IsStage(e) \/ e.ev = "callback")
    IN  [k \in 1..Len(s) |-> <<s[k].ev, s[k].phase, s[k].i>>]

C3_Ordering ==
    (Dispatched /\ ~CancelledAtEntry /\ AllPass)
    => /\ Len(ObservedOrder) <= Len(ExpectedOrder)
       /\ ObservedOrder = SubSeq(ExpectedOrder, 1, Len(ObservedOrder))
       /\ pc = "done" => /\ ObservedOrder = ExpectedOrder
                         /\ Outcome.err = Null

C3_Witness ==
    /\ pc = "done"
    /\ AllPass
    /\ ~CancelledAtEntry
    /\ Len(beforeMiddlewares) = 2
    /\ Len(afterMiddlewares) = 2
    /\ ObservedOrder = ExpectedOrder

(* C4: a call whose cancelled flag is set when the entry point is invoked
   gets an error with the CANCELLED status code, and no before-middleware,
   handler or after-middleware executes for it. *)
C4_CancellationPrecedence ==
    CancelledAtEntry
    => /\ pc = "done"
       /\ Len(log) = 2
       /\ log[2].ev = "callback"
       /\ log[2].val.err.code = Num(1)
       /\ \A k \in DOMAIN log : ~IsStage(log[k])

C4_Witness ==
    /\ CancelledAtEntry
    /\ Len(beforeMiddlewares) >= 1
    /\ Len(afterMiddlewares) >= 1
    /\ Len(Callbacks) = 1

(* C5: when a middleware of either chain invokes its continuation a second
   time, the outcome is an error with the UNKNOWN status code whose message
   reports the duplicate invocation, and no stage runs after the second
   invocation or runs twice. *)
C5_DoubleContinuation ==
    HasDoubleNext
    => /\ \A p \in {"before", "after"}, i \in 0..MaxMiddlewares :
            \A k \in NextCalls(p, i) :
                (\E j \in NextCalls(p, i) : j < k)
                => \A m \in DOMAIN log : m > k => ~IsStage(log[m])
       /\ \A j, k \in DOMAIN log :
            (j < k /\ IsStage(log[j]) /\ IsStage(log[k]))
            => <<log[j].ev, log[j].phase, log[j].i>>
               # <<log[k].ev, log[k].phase, log[k].i>>
       /\ pc \in {"beforeRun", "afterRun", "catch", "done"}
       /\ pc = "done"
          => /\ Outcome.err # Null
             /\ Outcome.err.code = Num(2)
             /\ Outcome.err.message = Str("next() called multiple times")

C5_Witness ==
    /\ pc = "done"
    /\ Cardinality(NextCalls("after", 0)) = 2
    /\ Outcome.err.code = Num(2)

(* C6: for a failure thrown by a before-middleware, the handler or an
   after-middleware, the outcome's status code is the failure's code when
   that code is a non-negative integer, and UNKNOWN in every other case. *)
C6_ErrorCodeMapping ==
    (pc = "done" /\ Throws # <<>>)
    => LET e == Throws[1].val
           c == IF e.t = "object" THEN e.code ELSE Undefined
       IN  /\ Outcome.err # Null
           /\ IF c.t = "number" /\ ~c.frac /\ c.n >= 0
              THEN Outcome.err.code = c
              ELSE Outcome.err.code = Num(2)

C6_Witness ==
    /\ pc = "done"
    /\ Throws # <<>>
    /\ Throws[1].phase = "handler"
    /\ Throws[1].val = Err(Num(5), Str("denied"), Str("why"))
    /\ Outcome.err.code = Num(5)

(* C7 as stated: for a failure thrown by any stage the error outcome carries
   the failure's message verbatim and its details verbatim. *)
C7_MessageVerbatim ==
    (pc = "done" /\ Throws # <<>>)
    => LET e == Throws[1].val
       IN  /\ Outcome.err.message = (IF e.t = "object" THEN e.message ELSE Undefined)
           /\ Outcome.err.details = (IF e.t = "object" THEN e.details ELSE Undefined)

(* C7 amended: the error outcome carries the failure's message verbatim when
   the failure has one and the fixed message "Internal error" when it has
   none; the details are carried verbatim, absent when the failure has none. *)
C7_MessageOrDefault ==
    (pc = "done" /\ Throws # <<>>)
    => LET e == Throws[1].val
           m == IF e.t = "object" THEN e.message ELSE Undefined
           d == IF e.t = "object" THEN e.details ELSE Undefined
       IN  /\ m.t = "string" => Outcome.err.message = m
           /\ m.t = "undefined" => Outcome.err.message = Str("Internal error")
           /\ Outcome.err.details = d

C7_Witness ==
    /\ pc = "done"
    /\ Throws # <<>>
    /\ Throws[1].val = Err(Str("5"), Undefined, Str("why"))
    /\ Outcome.err.message = Str("Internal error")
    /\ Outcome.err.details = Str("why")

(* C8: when a stage throws, no later stage of the call executes and the
   outcome is an error: after a before-middleware failure the handler and
   the after-chain never run, after a handler failure the after-chain never
   runs, and an after-middleware failure yields an error although the
   handler succeeded. *)
C8_FailureAborts ==
    \A k \in DOMAIN log :
        log[k].ev = "throw"
        => /\ \A m \in DOMAIN log :
                m > k => log[m].ev \notin {"start", "handler", "return", "next"}
           /\ log[k].phase = "before"
              => ~HandlerRan /\ \A i \in 0..MaxMiddlewares : ~StageRan("after", i)
           /\ log[k].phase = "handler"
              => \A i \in 0..MaxMiddlewares : ~StageRan("after", i)
           /\ pc \in {"catch", "done"}
           /\ pc = "done" => Outcome.err # Null /\ Outcome.value = Null

C8_Witness ==
    /\ pc = "done"
    /\ Throws # <<>>
    /\ Throws[1].phase = "after"
    /\ Returns # <<>>
    /\ Outcome.err # Null

(* C9 as stated: once the handler has returned r, the after-chain runs with
   r stored in the context state under the key __result. *)
C9_ResultUnderResultKey ==
    pc \in {"after", "afterRun"} => ctxState["__result"] = Returns[1].val

(* C9 amended: once the handler has returned r, the after-chain runs with r
   stored in the context state under the key __response. *)
C9_ResultUnderResponseKey ==
    pc \in {"after", "afterRun"} => ctxState["__response"] = Returns[1].val

C9_Witness ==
    /\ pc = "afterRun"
    /\ StageRan("after", 0)
    /\ Returns # <<>>
    /\ ctxState["__response"] = [t |-> "response", status |-> "seen"]

(* C10: a call that is not cancelled and whose stages all complete without
   failure (also with no middleware at all) ends in success, with exactly
   the value the registered handler returned as payload. *)
C10_SuccessPayload ==
    (pc = "done" /\ ~CancelledAtEntry /\ Throws = <<>>)
    => /\ Len(Returns) = 1
       /\ Callbacks = <<CallbackEvent(Null, Returns[1].val)>>

C10_Witness ==
    /\ pc = "done"
    /\ beforeMiddlewares = <<>>
    /\ afterMiddlewares = <<>>
    /\ Callbacks = <<CallbackEvent(Null, [t |-> "response", status |-> "SERVING"])>>

(* C11 as stated: every dispatched call eventually receives a response,
   whatever its middleware and handler do. *)
C11_EveryCallAnswered == Dispatched ~> (Len(Callbacks) = 1)

\* a stage that was started is of a kind that never settles
StageHung ==
    \/ pc = "awaitController" /\ entry.controller = HangingController
    \/ /\ pc \in {"beforeRun", "afterRun"}
       /\ stack # <<>>
       /\ Top.at = "fn"
       /\ Chain(phase)[Top.i + 1] = HangingMiddleware

(* C11 amended: every dispatched call eventually receives a response unless
   one of its stages (a middleware or the handler) never settles. *)
C11_AnsweredUnlessStageHangs ==
    Dispatched ~> (Len(Callbacks) = 1 \/ StageHung)

C11_Witness ==
    /\ pc = "done"
    /\ Len(Callbacks) = 1
    /\ Throws # <<>>
    /\ \E i \in 1..Len(afterMiddlewares) : afterMiddlewares[i] = HangingMiddleware

\* the flag was clear at the entry check and set afterwards
CancelledLate == Dispatched /\ cancelled /\ ~CancelledAtEntry

(* C14: cancellation is read once, at entry.  When the flag becomes set
   after the entry check, while a stage is suspended, the pipeline goes on
   (a step of it stays possible until the callback), the stages start in the
   same order and the outcome is the one the stages alone dictate: the
   handler's value when nothing failed, the mapped first failure otherwise. *)
C14_CancellationReadOnce ==
    CancelledLate
    => /\ pc # "done" => ENABLED EngineStep
       /\ AllPass
          => /\ Len(ObservedOrder) <= Len(ExpectedOrder)
             /\ ObservedOrder = SubSeq(ExpectedOrder, 1, Len(ObservedOrder))
       /\ pc = "done"
          => IF Throws = <<>>
             THEN /\ Len(Returns) = 1
                  /\ Callbacks = <<CallbackEvent(Null, Returns[1].val)>>
             ELSE Callbacks = <<CallbackEvent(ToServiceError(Throws[1].val), Null)>>

C14_Witness ==
    /\ CancelledLate
    /\ pc = "done"
    /\ Len(beforeMiddlewares) >= 1
    /\ Len(afterMiddlewares) >= 1
    /\ StageRan("after", 0)
    /\ \E k \in DOMAIN log : log[k].ev = "start" /\ log[k].phase = "before"
    /\ Outcome.err = Null

\* what a step may do to the entry point, and what a dispatched call found
C15_Construction ==
    /\ entry' # entry
       => /\ UNCHANGED <<routes, log, pc>>
          /\ entry'.t = "threw" <=> RouteIndex(entry'.method) = 0
          /\ entry'.t = "handler"
             => entry'.controller = routes[RouteIndex(entry'.method)].controller
    /\ Dispatched'
       => /\ entry'.t = "handler"
          /\ entry'.controller \in ControllerKinds

(* C15: toUnaryHandler(name) for a name without a registered handler
   throws when it is called and yields no entry point (it changes nothing
   else); it yields an entry point bound to the registered controller
   otherwise.  Hence every dispatched call goes through an entry point
   whose handler exists. *)
C15_WiringErrorAtConstruction == [][C15_Construction]_vars

C15_Witness ==
    /\ entry.t = "threw"
    /\ entry.method = "check"
    /\ ~Dispatched
    /\ Len(routes) = 1

\* the stages of phase p that started, oldest first
Started(p) == SelectSeq(log, LAMBDA e : e.ev = "start" /\ e.phase = p)

\* the k-th stage of a phase to start is the k-th middleware of its list
RunsInListOrder(p) ==
    \A k \in 1..Len(Started(p)) :
        /\ Started(p)[k].i = k - 1
        /\ k <= Len(Chain(p))
        /\ Started(p)[k].val.mw = Chain(p)[k]

\* what use(mw, ph) does to the router
UseAppends ==
    \A mw \in MiddlewareKinds, ph \in UsePhases :
        Use(mw, ph)
        => /\ IF ph = "after"
              THEN /\ afterMiddlewares' = Append(afterMiddlewares, mw)
                   /\ beforeMiddlewares' = beforeMiddlewares
              ELSE /\ beforeMiddlewares' = Append(beforeMiddlewares, mw)
                   /\ afterMiddlewares' = afterMiddlewares
           /\ routes' = routes

(* C19: use(mw, phase) appends mw at the end of the list of the given phase
   (the before list when the phase is left out) and leaves the other list
   and the routes unchanged; only use() changes the lists; within a phase
   the stages start in the order of the list, which is the registration
   order. *)
C19_UseAppendsInOrder ==
    [][/\ UseAppends
       /\ <<beforeMiddlewares, afterMiddlewares>>' # <<beforeMiddlewares, afterMiddlewares>>
          => \E mw \in MiddlewareKinds, ph \in UsePhases : Use(mw, ph)
       /\ RunsInListOrder("before")'
       /\ RunsInListOrder("after")']_vars

C19_Witness ==
    /\ Len(beforeMiddlewares) = 2
    /\ beforeMiddlewares[1] = "pass"
    /\ beforeMiddlewares[2] = "skip"
    /\ Len(afterMiddlewares) = 2
    /\ afterMiddlewares[1] = "pass"
    /\ afterMiddlewares[2] = "throw"
    /\ Len(Started("before")) = 2
    /\ Len(Started("after")) = 2

\* the keys of a mapping, in order
Keys(impl) == [k \in 1..Len(impl.entries) |-> impl.entries[k].method]

\* the methods the service a mapping is mounted as declares
Declared(impl) ==
    IF impl.by = "HealthRouter" THEN HealthMethods ELSE ServiceMethods

(* C16: asServiceImpl never returns a service implementation from which a
   method declared for the service is missing: every mapping it has
   returned has an entry point for each declared method. *)
C16_AssemblyAborts ==
    \A k \in DOMAIN impls :
        \A m \in Declared(impls[k]) :
            \E j \in DOMAIN impls[k].entries : impls[k].entries[j].method = m

\* a sequence without repetitions
Distinct(seq) == \A i, j \in DOMAIN seq : seq[i] = seq[j] => i = j

\* what a step may do to the names, and what a new mapping has as keys
NamesStep ==
    /\ Distinct(ListMethods')
    /\ \A name \in ServiceMethods, c \in ControllerKinds :
          Handle(name, c)
          => ListMethods' = IF \E k \in DOMAIN ListMethods : ListMethods[k] = name
                            THEN ListMethods
                            ELSE Append(ListMethods, name)
    /\ ListMethods' # ListMethods
       => \E name \in ServiceMethods, c \in ControllerKinds : Handle(name, c)
    /\ (impls' # impls /\ impls'[Len(impls')].by = "RouterModule")
       => Keys(impls'[Len(impls')]) = ListMethods

(* C18: listMethods() returns the registered names, each once, in insertion
   order: handle() of a new name appends it, handle() of a registered name
   leaves the list as it is, nothing else changes it; the mapping that
   asServiceImpl() returns has exactly these names as keys. *)
C18_NamesInInsertionOrder == [][NamesStep]_vars

C18_Witness ==
    /\ ListMethods = <<"watch", "check">>
    /\ Len(impls) = 2
    /\ impls[1].by = "RouterModule"
    /\ impls[2].by = "RouterModule"
    /\ Keys(impls[1]) = <<"watch", "check">>
    /\ Keys(impls[2]) = <<"watch", "check">>
    /\ impls[1].entries[1].controller # impls[2].entries[1].controller

\* what handle() does to the registry, and which controller a mapping built
\* afterwards and a call through it use
HandleStep ==
    /\ Distinct(ListMethods')
    /\ pc = "none"
       => \A name \in Methods, c \in ControllerKinds : ENABLED Handle(name, c)
    /\ \A name \in Methods, c \in ControllerKinds :
          Handle(name, c)
          => /\ EntryPoint(name)' =
                    [t |-> "handler", method |-> name, controller |-> c]
             /\ Len(routes') = IF RouteIndex(name) = 0
                               THEN Len(routes) + 1
                               ELSE Len(routes)
    /\ impls' # impls
       => \A j \in DOMAIN impls'[Len(impls')].entries :
             impls'[Len(impls')].entries[j] =
                 EntryPoint(impls'[Len(impls')].entries[j].method)
    /\ pc' # "none"
       => /\ entry'.controller = impls'[entry'.impl].entries[1].controller
          /\ \A k \in DOMAIN log' :
                /\ log'[k].ev = "handler"
                   => log'[k].val.controller = entry'.controller
                /\ log'[k].ev = "return" => entry'.controller = "returns"
                /\ (log'[k].ev = "throw" /\ log'[k].phase = "handler")
                   => entry'.controller = "throws"

(* C17: handle() for a name that already has a handler is accepted and
   replaces it: the registry holds one handler per name, the one registered
   last, and an entry point built afterwards invokes that handler only. *)
C17_ReRegistrationReplaces == [][HandleStep]_vars

C17_Witness ==
    /\ Len(routes) = 1
    /\ Len(impls) = 2
    /\ impls[1].entries # <<>>
    /\ impls[2].entries # <<>>
    /\ impls[1].entries[1].controller = "returns"
    /\ impls[2].entries[1].controller = "throws"
    /\ entry.t = "handler"
    /\ entry.impl = 2
    /\ pc = "done"
    /\ Throws # <<>>
    /\ Throws[1].phase = "handler"

\* two mappings built from the same registry have the same entry points
EquivalentMappings ==
    \A k1, k2 \in DOMAIN impls :
        impls[k1].registry = impls[k2].registry
        => impls[k1].entries = impls[k2].entries

\* a call in which everything passes runs as in C3, whatever came before it
CallUnaffected ==
    /\ (pc # "none" /\ ~CancelledAtEntry /\ AllPass)
       => /\ Len(ObservedOrder) <= Len(ExpectedOrder)
          /\ ObservedOrder = SubSeq(ExpectedOrder, 1, Len(ObservedOrder))
          /\ pc = "done" => ObservedOrder = ExpectedOrder /\ Outcome.err = Null
    /\ (pc # "none" /\ Throws # <<>> /\ Throws[1].val = DuplicateNextError)
       => HasDoubleNext

\* what building a mapping and running a call may change
IndependentStep ==
    /\ EquivalentMappings'
    /\ impls' # impls
       => /\ SubSeq(impls', 1, Len(impls)) = impls
          /\ UNCHANGED <<beforeMiddlewares, afterMiddlewares, routes, entry,
                         pc, ctxState, idx, log>>
    /\ (pc # "none" \/ pc' # "none")
       => UNCHANGED <<beforeMiddlewares, afterMiddlewares, routes, impls, entry>>
    /\ (pc = "none" /\ pc' # "none")
       => /\ ctxState' = [k \in StateKeys |-> Undefined]
          /\ Len(log') <= 2
    /\ CallUnaffected'

(* C20: two asServiceImpl() calls on an unchanged router give mappings with
   the same names and the same entry points (same controllers, the router's
   middleware lists); building a mapping changes nothing else, a call
   through an entry point changes neither the router nor the mappings, and
   every call starts from a fresh context and cursor, so it runs the same
   whichever mapping it came through and whatever earlier calls did. *)
C20_EquivalentIndependent == [][IndependentStep]_vars

C20_Witness ==
    /\ Len(impls) = 2
    /\ impls[1].registry = impls[2].registry
    /\ impls[1].entries = impls[2].entries
    /\ impls[2].entries # <<>>
    /\ Len(beforeMiddlewares) = 1
    /\ entry.t = "handler"
    /\ entry.impl = 2
    /\ pc = "before"
    /\ thrown # Undefined
    /\ ctxState = [k \in StateKeys |-> Undefined]

\* the flows of the call
MainFlow ==
    IF ActiveIsMain
    THEN ActiveFlow
    ELSE detached[CHOOSE d \in DOMAIN detached : detached[d].main]

TaskFlows ==
    {f \in {ActiveFlow} \cup {detached[d] : d \in DOMAIN detached} : ~f.main}

\* a stage of the flow has started and has not finished
InStage(f) ==
    \/ f.pc = "awaitController"
    \/ /\ f.pc \in {"beforeRun", "afterRun"}
       /\ \E k \in DOMAIN f.stack : f.stack[k].at # "enter"

(* C12: the pipeline never has two stages running concurrently, also when a
   middleware invokes next() without awaiting it: while a stage started by
   an un-awaited next() is unfinished, the entry point's own flow is in no
   stage (no middleware of it is resumed, the handler and the after-chain
   have not started). *)
C12_NoTwoStagesConcurrently ==
    \A f \in TaskFlows : InStage(f) => ~InStage(MainFlow)

\* what a step may add to the history and do to the cursor
AtMostOnceStep ==
    /\ \A k1, k2 \in DOMAIN log' :
          (/\ IsStage(log'[k1])
           /\ log'[k1].ev = log'[k2].ev
           /\ log'[k1].phase = log'[k2].phase
           /\ log'[k1].i = log'[k2].i)
          => k1 = k2
    /\ Len(SelectSeq(log', LAMBDA e : e.ev = "callback")) <= 1
    /\ (Len(log') > Len(log) /\ log'[Len(log')].ev = "start")
       => /\ idx < log'[Len(log')].i
          /\ idx' = log'[Len(log')].i
    /\ (detached' = detached /\ pc' = pc) => idx' >= idx
    /\ Len(detached') > Len(detached) => idx' > idx

(* C13: within one call every stage (each before-middleware, the handler,
   each after-middleware) starts at most once, whatever the middleware do
   with their continuation (await it, skip it, call it twice, call it
   without awaiting) and whatever fails: a stage is entered only with an
   index above the chain's cursor, the cursor only increases, and the
   callback is invoked at most once. *)
C13_AtMostOnce == [][AtMostOnceStep]_vars

C13_Witness ==
    /\ pc = "done"
    /\ ActiveIsMain
    /\ beforeMiddlewares = <<DetachingMiddleware, "throw">>
    /\ StageRan("before", 1)
    /\ HandlerRan
    /\ \E k \in DOMAIN log : log[k].ev = "unhandled"
    /\ Len(Callbacks) = 1

\* the controller the registry held under name when the mapping was built
BoundAtBuild(impl, name) ==
    LET reg == impl.registry
        at == CHOOSE r \in DOMAIN reg : reg[r].name = name
    IN  reg[at].controller

\* what handle() leaves alone, and which controller a call runs
CapturedStep ==
    /\ routes' # routes => UNCHANGED <<entry, impls>>
    /\ \A k \in DOMAIN impls' :
          /\ k \in DOMAIN impls => impls'[k] = impls[k]
          /\ \A j \in DOMAIN impls'[k].entries :
                impls'[k].entries[j].controller
                    = BoundAtBuild(impls'[k], impls'[k].entries[j].method)
    /\ pc' # "none"
       => LET bound == BoundAtBuild(impls'[entry'.impl], entry'.method)
          IN  /\ entry'.controller = bound
              /\ \A e \in DOMAIN log' :
                    /\ log'[e].ev = "handler" => log'[e].val.controller = bound
                    /\ log'[e].ev = "return" => bound = "returns"
                    /\ (log'[e].ev = "throw" /\ log'[e].phase = "handler")
                       => bound = "throws"

(* C25: an entry point invokes, on every call, the handler that was
   registered under its name when the entry point was built; a later
   handle() for the name changes no entry point that exists already. *)
C25_HandlerCapturedAtBuild == [][CapturedStep]_vars

C25_Witness ==
    /\ Len(impls) >= 1
    /\ impls[1].entries # <<>>
    /\ impls[1].entries[1].controller = "returns"
    /\ routes[1].controller = "throws"
    /\ entry.t = "handler"
    /\ entry.impl = 1
    /\ pc = "done"
    /\ Returns # <<>>
    /\ Outcome.err = Null
    /\ thrown # Undefined

(* C26: the before-chain is not wrapped around the handler.  When every
   middleware awaits its continuation, each before-middleware has run the
   code after its continuation (its frame is gone) before the handler
   starts, and each after-middleware before the callback is invoked. *)
C26_ChainsNotWrapped ==
    /\ pc \in {"controller", "awaitController", "store", "after"} => stack = <<>>
    /\ (HandlerRan /\ stack # <<>>) => phase = "after" /\ pc = "afterRun"
    /\ Len(Callbacks) = 1 => stack = <<>>

C26_Witness ==
    /\ pc = "done"
    /\ beforeMiddlewares = <<"pass", "pass">>
    /\ afterMiddlewares = <<"pass">>
    /\ NextCalls("before", 0) # {}
    /\ NextCalls("before", 1) # {}
    /\ NextCalls("after", 0) # {}
    /\ HandlerRan
    /\ Outcome.err = Null

\* what a step of a call in flight may change, and what building the
\* context does
AdapterFrame ==
    /\ pc # "none"
       => /\ UNCHANGED <<ctx, routes, beforeMiddlewares, afterMiddlewares,
                         entry, impls>>
          /\ ctxState' # ctxState
             => \/ MiddlewareWrites
                \/ /\ pc = "store"
                   /\ \A k \in StateKeys \ {ResultKey} : ctxState'[k] = ctxState[k]
                   /\ ctxState'[ResultKey] = result
    /\ \A c \in BOOLEAN, md \in {Undefined, RequestMetadata} :
          InvokeCall(c, md)
          => /\ ctx'.call = [metadata |-> md]
             /\ ctx'.metadata = IF md = Undefined THEN NewMetadata ELSE md
             /\ ctx'.service = ServicePrefix
             /\ ctx'.method = entry.method
             /\ UNCHANGED <<routes, beforeMiddlewares, afterMiddlewares,
                            entry, impls>>

(* C22: the adapter writes only the reserved result entry of ctx.state.
   After the context is built it never changes ctx.service, ctx.method,
   ctx.metadata or the call object (a call without metadata stays without),
   and no step of a call changes the registry, the middleware lists or the
   entry points; every other change of ctx.state is a middleware's own. *)
C22_AdapterWritesOnlyResultEntry == [][AdapterFrame]_vars

C22_Witness ==
    /\ pc = "done"
    /\ ctx.call.metadata = Undefined
    /\ ctx.metadata = NewMetadata
    /\ result # Undefined
    /\ ctxState[ResultKey] = result
    /\ ctxState["seen"] = Str("yes")
    /\ Outcome.err = Null

(* C27: the success payload passed to the callback is the value the handler
   returned, also when an after-middleware has replaced or deleted the
   reserved result entry of ctx.state. *)
C27_PayloadIsHandlerValue ==
    (pc = "done" /\ ~CancelledAtEntry /\ Throws = <<>>)
    => /\ Len(Returns) = 1
       /\ Outcome = [err |-> Null, value |-> Returns[1].val]
       /\ Outcome.value = result

C27_Witness ==
    /\ pc = "done"
    /\ afterMiddlewares = <<"replace", "delete">>
    /\ Len(Returns) = 1
    /\ ctxState[ResultKey] = Undefined
    /\ Outcome = [err |-> Null, value |-> Returns[1].val]

\* the calls in flight
CallsInFlight ==
    {ActiveCall} \cup {waiting[d] : d \in DOMAIN waiting}

StartedBy(c, p) ==
    {c.log[k].i : k \in {j \in DOMAIN c.log :
                            c.log[j].ev = "start" /\ c.log[j].phase = p}}

WroteBy(c, kind) ==
    \E k \in DOMAIN c.log : c.log[k].ev = "write" /\ c.log[k].val.mw = kind

DoubleNextBy(c) ==
    \E p \in {"before", "after"}, i \in 0..MaxConcurrentMiddlewares :
        Cardinality({k \in DOMAIN c.log :
                        /\ c.log[k].ev = "next"
                        /\ c.log[k].phase = p
                        /\ c.log[k].i = i}) >= 2

DuplicateRaisedBy(c) ==
    \E k \in DOMAIN c.log :
        c.log[k].ev = "throw" /\ c.log[k].val = DuplicateNextError

\* the call's context and cursor are what its own history accounts for
OwnContext(c) ==
    /\ c.ctxState["seen"] # Undefined <=> WroteBy(c, "mark")
    /\ c.ctxState[ResultKey] # Undefined
       => \E k \in DOMAIN c.log :
             c.log[k].ev = "return" /\ c.log[k].val = c.ctxState[ResultKey]
    /\ c.ctxState["__result"] = Undefined
    /\ c.pc \in {"beforeRun", "afterRun"}
       => LET S == StartedBy(c, c.phase)
          IN  IF S = {}
              THEN c.idx = -1
              ELSE /\ \A i \in S : i <= c.idx
                   /\ c.idx \in S \/ c.idx = Len(Chain(c.phase))
    /\ DuplicateRaisedBy(c) => DoubleNextBy(c)
    /\ (c.pc = "done" /\ DoubleNextBy(c)) => DuplicateRaisedBy(c)

(* C21: for any interleaving of concurrent calls on one router each call has
   its own context and its own chain cursor: ctx.state of a call holds only
   what that call's own middleware and handler wrote, its cursor is the one
   its own runChain advanced, and it gets the "next() called multiple times"
   failure exactly when its own middleware invoked a continuation twice. *)
C21_CallsIsolated ==
    \A c \in CallsInFlight : c.pc # "none" => OwnContext(c)

C21_Witness ==
    /\ beforeMiddlewares = <<"mark", "twice">>
    /\ waiting # <<>>
    /\ waiting[1].pc = "beforeRun"
    /\ waiting[1].idx = 0
    /\ waiting[1].ctxState["seen"] = Undefined
    /\ ~DoubleNextBy(waiting[1])
    /\ pc = "done"
    /\ idx = 2
    /\ ctxState["seen"] = Str("yes")
    /\ DuplicateRaisedBy(ActiveCall)

\* the lists as they were when the call was dispatched
AtDispatch(p) == IF p = "after" THEN log[1].val.after ELSE log[1].val.before

IsPrefix(a, b) == Len(a) <= Len(b) /\ SubSeq(b, 1, Len(a)) = a

TimesStarted(p, i) ==
    Cardinality({k \in DOMAIN log :
                    log[k].ev = "start" /\ log[k].phase = p /\ log[k].i = i})

\* every middleware registered at dispatch has executed exactly once
DispatchedAllRan ==
    \A p \in {"before", "after"} :
        \A i \in 0..(Len(AtDispatch(p)) - 1) : TimesStarted(p, i) = 1

\* every middleware that ran awaited its continuation once
StartedAllPass ==
    \A k \in DOMAIN log : log[k].ev = "start" => log[k].val.mw = "pass"

(* C24 as stated: with use() appending in flight, a call whose middleware
   registered at dispatch all pass and whose handler returns still executes
   every one of them exactly once and produces one response. *)
C24_DispatchedMiddlewareAllRun ==
    (/\ pc = "done"
     /\ ~CancelledAtEntry
     /\ entry.controller = "returns"
     /\ \A p \in {"before", "after"} :
           \A i \in DOMAIN AtDispatch(p) : AtDispatch(p)[i] = "pass")
    => DispatchedAllRan /\ Len(Callbacks) = 1

\* a middleware appended in flight to the before-list has thrown, and the
\* after-middleware registered at dispatch never ran
SkippedByAppended ==
    /\ pc = "done"
    /\ log[1].val.before = <<"pass">>
    /\ log[1].val.after = <<"pass">>
    /\ beforeMiddlewares = <<"pass", "throw">>
    /\ StageRan("before", 1)
    /\ ~StageRan("after", 0)
    /\ Outcome.err # Null

(* C24 amended: with use() appending in flight, the lists only grow behind
   what was registered at dispatch; the middleware of each phase start in
   list order, none twice, so an appended one runs after the earlier ones;
   the call produces exactly one response; and when every middleware that
   runs, appended ones included, awaits its continuation once and nothing
   throws, every middleware registered at dispatch executes exactly once. *)
C24_AppendedRunAfter ==
    Dispatched
    => /\ IsPrefix(AtDispatch("before"), beforeMiddlewares)
       /\ IsPrefix(AtDispatch("after"), afterMiddlewares)
       /\ RunsInListOrder("before")
       /\ RunsInListOrder("after")
       /\ Len(Callbacks) <= 1
       /\ pc = "done" => Len(Callbacks) = 1
       /\ (pc = "done" /\ ~CancelledAtEntry /\ Throws = <<>> /\ StartedAllPass)
          => DispatchedAllRan

C24_Witness ==
    /\ pc = "done"
    /\ log[1].val.before = <<"pass">>
    /\ log[1].val.after = <<"pass">>
    /\ beforeMiddlewares = <<"pass", "pass">>
    /\ StageRan("before", 1)
    /\ StartedAllPass
    /\ Throws = <<>>
    /\ DispatchedAllRan
    /\ Outcome.err = Null

\* the handler's log statement met a failing collaborator
LoggerFaulted ==
    \E k \in DOMAIN log : log[k].ev = "logger" /\ log[k].val.failed

MiddlewarePass ==
    /\ \A i \in 1..Len(beforeMiddlewares) : beforeMiddlewares[i] = "pass"
    /\ \A i \in 1..Len(afterMiddlewares) : afterMiddlewares[i] = "pass"

(* C23: a failure raised by the logger during a log statement of the handler
   does not change the call's outcome: with middleware that pass, the call
   whose handler logs and returns SERVING is answered with that success, as
   it is when logging succeeds. *)
C23_LoggerFailureHarmless ==
    (pc = "done" /\ ~CancelledAtEntry /\ MiddlewarePass /\ LoggerFaulted)
    => Outcome = [err |-> Null, value |-> Serving]

\* a failure of the file store alone is swallowed by saveLog
StoreFailureSwallowed ==
    /\ pc = "done"
    /\ \E k \in DOMAIN log :
          /\ log[k].ev = "logger"
          /\ log[k].val.fault = [print |-> FALSE, ensure |-> FALSE,
                                 store |-> TRUE, reprint |-> FALSE]
          /\ log[k].val.ops.save = Bool(TRUE)
    /\ Outcome = [err |-> Null, value |-> Serving]

\* what holds of a connect() at any moment, and of one that has returned
ConnectBounded ==
    LET n == orm.retry.maxAttempts
    IN  /\ orm.invoked = orm.failed + (IF orm.ok \/ orm.pc = "doConnect" THEN 1 ELSE 0)
        /\ n > 0 => orm.invoked <= n
        /\ orm.ok => orm.pc = "returned" /\ orm.status = "CONNECTED"
        /\ (n > 0 /\ orm.failed = n) => orm.pc = "returned" /\ orm.status = "ERROR"
        /\ (orm.pc = "returned" /\ orm.invoked > 0)
           => \/ orm.ok /\ orm.status = "CONNECTED"
              \/ /\ ~orm.ok
                 /\ orm.status = "ERROR"
                 /\ ~orm.last.retryable \/ (n > 0 /\ orm.failed = n)
        /\ (orm.pc = "returned" /\ orm.invoked = 0) => orm.status = "CONNECTED"

\* connect() on a module that is CONNECTED returns at once
ConnectedIsNoOp ==
    (orm.status = "CONNECTED" /\ orm'.calls = orm.calls + 1)
    => /\ orm'.invoked = 0
       /\ orm'.pc = "returned"
       /\ orm'.status = "CONNECTED"

ConnectStep == ConnectBounded' /\ ConnectedIsNoOp

(* C28: connect() with maxAttempts = n > 0 invokes doConnect at most n
   times; it stops at the first success with status CONNECTED and after n
   failed attempts with status ERROR; with maxAttempts = 0 it stops only on
   a success or a non-retryable failure; on a module already CONNECTED it
   makes no attempt. *)
C28_AttemptsBounded == [][ConnectStep]_vars

C28_Witness ==
    /\ orm.pc = "returned"
    /\ orm.retry.maxAttempts = 3
    /\ orm.invoked = 3
    /\ orm.failed = 3
    /\ orm.status = "ERROR"
    /\ orm.last.retryable
    /\ Len(orm.waits) = 2

\* the code a failure is classified by
ClassifiedCode(e) ==
    IF e.cls = "QueryFailedError" /\ e.driver # "none" THEN e.driver ELSE e.code

(* C29: when a doConnect attempt fails with an error classified as
   non-retryable (pg codes 3D000, 28P01, 28000), connect() makes no further
   attempt and sets no backoff timer, whatever maxAttempts is, and the
   status ends as ERROR. *)
C29_NonRetryableStops ==
    /\ \A e \in ConnectErrors :
          ToOrmConnectError(e).retryable
              <=> ClassifiedCode(e) \notin {"3D000", "28P01", "28000"}
    /\ (orm.last.t = "error" /\ ~orm.last.retryable)
       => /\ orm.pc = "returned"
          /\ orm.status = "ERROR"
          /\ orm.invoked = orm.failed
          /\ Len(orm.waits) = orm.failed - 1

C29_Witness ==
    /\ orm.retry.maxAttempts = 0
    /\ orm.last.t = "error"
    /\ orm.last.code = "28P01"
    /\ orm.failed = 2
    /\ Len(orm.waits) = 1
    /\ orm.pc = "returned"
    /\ orm.status = "ERROR"

\* min(baseDelayMs * factor^(k-1), maxDelayMs)
ClaimedWait(k) ==
    QMin(QMul(orm.retry.baseDelayMs, QPow(orm.retry.factor, k - 1)),
         orm.retry.maxDelayMs)

\* the same with the cap applied after every wait: from the second wait on
\* the cap itself has been multiplied k-2 times
CappedWait(k) ==
    IF k = 1
    THEN ClaimedWait(1)
    ELSE QMin(ClaimedWait(k),
              QMul(orm.retry.maxDelayMs, QPow(orm.retry.factor, k - 2)))

(* C30 as stated: the wait between failed attempt k and attempt k+1 equals
   min(baseDelayMs * factor^(k-1), maxDelayMs), for every factor. *)
C30_WaitIsClaimed ==
    \A k \in DOMAIN orm.waits : QEq(orm.waits[k], ClaimedWait(k))

(* C30 amended: no wait exceeds maxDelayMs; for factor >= 1 the wait after
   failed attempt k equals min(baseDelayMs * factor^(k-1), maxDelayMs) and
   the waits are non-decreasing; for every factor >= 0 it equals
   min(baseDelayMs * factor^(k-1), maxDelayMs * factor^(k-2), maxDelayMs)
   from the second wait on, because the running delay is capped after
   every wait. *)
C30_BackoffCappedEachStep ==
    /\ \A k \in DOMAIN orm.waits :
          /\ QLeq(orm.waits[k], orm.retry.maxDelayMs)
          /\ QEq(orm.waits[k], CappedWait(k))
    /\ (orm.waits # <<>> /\ QLeq(Q(1, 1), orm.retry.factor))
       => /\ \A k \in DOMAIN orm.waits : QEq(orm.waits[k], ClaimedWait(k))
          /\ \A k \in 1..(Len(orm.waits) - 1) :
                QLeq(orm.waits[k], orm.waits[k + 1])

C30_Witness ==
    /\ orm.retry.baseDelayMs = Q(64, 1)
    /\ orm.retry.maxDelayMs = Q(8, 1)
    /\ orm.retry.factor = Q(1, 2)
    /\ Len(orm.waits) = 3
    /\ QEq(orm.waits[1], Q(8, 1))
    /\ QEq(orm.waits[2], Q(8, 1))
    /\ QEq(orm.waits[3], Q(4, 1))

\* what a step of disconnect() does
DisconnectStep ==
    /\ ~orm'.dthrew
    /\ (orm'.dpc = "returned" /\ (orm.dpc # "returned" \/ orm'.dcalls # orm.dcalls))
       => orm'.status = "DISCONNECTED"
    /\ orm'.dinvoked # orm.dinvoked
       => /\ orm.status \in {"CONNECTED", "ERROR"}
          /\ orm'.dinvoked = orm.dinvoked + 1
    /\ (orm.status = "DISCONNECTED" /\ orm'.dcalls # orm.dcalls)
       => /\ orm'.dinvoked = orm.dinvoked
          /\ orm'.dpc = "returned"

(* C31: disconnect() never throws and leaves the status DISCONNECTED when
   it returns, also when doDisconnect fails; doDisconnect is invoked only
   when the status was CONNECTED or ERROR, so a disconnect() that follows a
   disconnect() does not invoke it again. *)
C31_DisconnectSettles == [][DisconnectStep]_vars

C31_Witness ==
    /\ orm.dcalls = 2
    /\ orm.dinvoked = 1
    /\ orm.dpc = "returned"
    /\ orm.status = "DISCONNECTED"
    /\ orm.ok
    /\ orm.pc = "returned"
    /\ ~orm.during

(* C32: if disconnect() runs while a connect() is in progress, then after
   both have settled the module is not CONNECTED. *)
C32_DisconnectWins ==
    (orm.during /\ orm.dpc = "returned" /\ orm.pc = "returned")
    => orm.status # "CONNECTED"

(* C33: every error whose code is ECONNREFUSED is classified CONNECTION_FAILED
   and every error whose code is ETIMEDOUT is classified TIMEOUT, both
   retryable, whatever the other fields of the error object are *)
C33_SysCodesClassified ==
    orm.last.t = "classified" =>
        /\ orm.last.original.code = "ECONNREFUSED" =>
              /\ orm.last.err.kind = "CONNECTION_FAILED"
              /\ orm.last.err.retryable
        /\ orm.last.original.code = "ETIMEDOUT" =>
              /\ orm.last.err.kind = "TIMEOUT"
              /\ orm.last.err.retryable

\* no start() or stop() of the app is in flight
AppIdle == app.pc = "idle"

\* the services the server was given
Mounted == {app.mounted[k] : k \in DOMAIN app.mounted}

(* C34: start() binds the server only with its ORM module connected, and
   whenever a start() has completed and the app is started the module's
   status is CONNECTED, for a first start() and for one that follows a
   stop() *)
C34_StartedMeansConnected ==
    (app.orms > 0 /\ (app.pc = "bindAsync" \/ (app.started /\ AppIdle)))
    => orm.status = "CONNECTED"

(* C35: a service added while the app was started is mounted on the server
   once a later stop() and start() have completed *)
C35_LateServiceMountedAtRestart ==
    \A i \in DOMAIN app.services :
        (/\ app.services[i].late
         /\ app.started
         /\ AppIdle
         /\ app.starts > app.services[i].at)
        => i \in Mounted

(* C36: stop() starts the ORM module's disconnect() only after the server
   has been shut down by tryShutdown or forceShutdown *)
C36_DisconnectAfterShutdown ==
    (app.pc = "disconnect" /\ orm.dcalls > app.mark)
    => app.server = "shutdown"

\* a stop() of a started app is in flight
Stopping == app.pc \in {"disconnect", "shutdown"}

(* C37 as stated: a stop() of a started app eventually resolves, whatever the
   server and the ORM module do. *)
C37_StopResolves == Stopping ~> AppIdle

\* the doDisconnect that stop() awaits never settles
DisconnectHangs == <>[](app.pc = "disconnect" /\ orm.dpc = "doDisconnect")

\* one step of the app, seen from stop(): a stop() of an app that is not
\* started only returns; a timer that finds done clear forces the shutdown
\* and completes the stop; a timer that finds done set does nothing
StopStep ==
    /\ (~app.started /\ app'.stopCalls # app.stopCalls)
       => app' = [app EXCEPT !.stopCalls = @ + 1]
    /\ (app.timer = "pending" /\ app'.timer = "fired" /\ ~app.done)
       => /\ app'.forced
          /\ app'.server = "shutdown"
          /\ ~app'.started
          /\ app'.pc = "idle"
    /\ (app.timer = "pending" /\ app'.timer = "fired" /\ app.done)
       => app' = [app EXCEPT !.timer = "fired"]
    /\ app'.finishes > app.finishes
       => /\ app.pc = "shutdown"
          /\ app'.finishes = 1
          /\ ~app'.started
          /\ app'.pc = "idle"

(* C37 amended: unless the doDisconnect it awaits never settles, a stop() of
   a started app eventually resolves, also when tryShutdown never calls back:
   the timer then forces the shutdown; the completion step runs once for a
   stop(), forceShutdown is not called after tryShutdown completed, and a
   stop() of an app that is not started does nothing. *)
C37_StopResolvesUnlessDisconnectHangs ==
    /\ [][StopStep]_vars
    /\ [](app.finishes <= 1 /\ ~(app.forced /\ app.completedFirst))
    /\ DisconnectHangs \/ (Stopping ~> AppIdle)

C37_Witness ==
    /\ AppIdle
    /\ ~app.started
    /\ app.forced
    /\ app.timer = "fired"
    /\ app.tryShutdown = "called"
    /\ app.finishes = 1
    /\ orm.dinvoked = 1
    /\ orm.status = "DISCONNECTED"

\* no service was given to the server twice
MountedOnce ==
    \A j, k \in DOMAIN app.mounted : app.mounted[j] = app.mounted[k] => j = k

\* one step of the app, seen from the server: once the routers are
\* initialised nothing more is mounted, and a start() of a started app
\* neither mounts nor binds
MountStep ==
    /\ MountedOnce'
    /\ app.initedRouters => app'.mounted = app.mounted
    /\ (app.started /\ app'.startCalls # app.startCalls)
       => /\ app'.binds = app.binds
          /\ app'.mounted = app.mounted
          /\ app'.pc = "idle"

(* C38: whatever addService, initRouters and start calls are made, no service
   is mounted on the server twice, and a start() of a started app does not
   bind again *)
C38_MountedAtMostOnce == [][MountStep]_vars

C38_Witness ==
    /\ app.started
    /\ app.starts = 2
    /\ app.startCalls = 3
    /\ app.initCalls = 1
    /\ Len(app.services) = 2
    /\ app.mounted = <<1>>
    /\ app.binds = 2

====
